---- MODULE Spec2Model ----
(***************************************************************************)
(* Model of the data-table store of aalvue (src/src/stores/dataTableStore  *)
(* .ts): the payload's sparse rows, the memoized rowMap / cellMap          *)
(* computeds and their side caches, the mutation API, the batching         *)
(* controller and clearChangedRows, and the grid actions that call them    *)
(* (src/unnamed/part_004).                                                 *)
(*                                                                         *)
(* Representation.  A JavaScript value (string | number | null |           *)
(* undefined | NaN) is a record [k, n]: k is the kind, n the number; a     *)
(* string is the empty string (n = -1), a non-numeric string (n = -2) or   *)
(* the decimal text of n (n >= 0).  A reference to a CellValue object is   *)
(* its position in the row's values array: every Map of the store is       *)
(* built from a row's values array or extended with a cell pushed to it,   *)
(* and clearResultCell removes a column from both, so a cached reference   *)
(* always denotes an element of the array.  A Vue computed is its dirty    *)
(* flag: it is re-evaluated on the first read after one of its             *)
(* dependencies triggered.                                                 *)
(***************************************************************************)
EXTENDS Integers, Sequences, FiniteSets, TLC

\* ------------------------------------------------------------------ bounds
MaxMutations == 3

\* --------------------------------------------------------------- constants
STATIC_COLUMN_COUNT == 5

\* minDisplayTime of the loading store, in ms
MinDisplayTime == 300

\* ------------------------------------------------------------ value domain
Num(n) == [k |-> "num", n |-> n]
Str(n) == [k |-> "str", n |-> n]
EmptyStr == [k |-> "str", n |-> -1]
TextStr == [k |-> "str", n |-> -2]
Null == [k |-> "null", n |-> 0]
Undef == [k |-> "undef", n |-> 0]
NaN == [k |-> "nan", n |-> 0]

\* typeof v === 'number' ? v : parseFloat(String(v))
ParseFloat(v) ==
  IF v.k = "num" THEN v
  ELSE IF v.k = "str" /\ v.n >= 0 THEN Num(v.n)
  ELSE NaN

\* a ?? b
Coalesce(a, b) == IF a.k \in {"null", "undef"} THEN b ELSE a

\* ----------------------------------------------------------------- payload
\* The loaded dataset: rows 1 and 2; column 5 is a rawdata column and
\* column 6 the result column of the same service item and analyte.
RowIndices == {1, 2}
DynCols == {5, 6}

\* data.value.metadata.schema.columnDefinitions.  Cells are addressed in the
\* columns 5 and 6 only; the other columns exist for the filters.  isSelected
\* is optional in ColumnDefinition: "true", "false" or "undefined".
ColumnDefinition(c, si, a, type, sel) ==
  [columnIndex |-> c, serviceItemIndex |-> si, analyteIndex |-> a,
   columnType |-> type, isSelected |-> sel]

ColumnDefinitions ==
  << ColumnDefinition(5, 1, 1, "rawdata", "true"),
     ColumnDefinition(6, 1, 1, "result", "undefined"),
     ColumnDefinition(7, 1, 1, "rawdata", "false"),
     ColumnDefinition(8, 1, 1, "correction", "undefined"),
     ColumnDefinition(9, 2, 2, "rawdata", "undefined"),
     ColumnDefinition(10, 2, 3, "result", "undefined") >>

\* data.value.metadata.schema.analytes
Analytes ==
  << [analyteIndex |-> 1, reportable |-> TRUE],
     [analyteIndex |-> 2, reportable |-> TRUE],
     [analyteIndex |-> 3, reportable |-> FALSE] >>

ColumnType(c) == IF c < STATIC_COLUMN_COUNT THEN "static"
                 ELSE ColumnDefinitions[c - STATIC_COLUMN_COUNT + 1].columnType

NewCell(c, v) ==
  [columnIndex |-> c, value |-> v, isFinal |-> FALSE, markedFinalAt |-> FALSE,
   copiedFrom |-> 0, baselineCorrection |-> Undef, multiplier |-> Undef,
   originalValue |-> Undef]

SampleRows == [r \in RowIndices |->
                 IF r = 1 THEN <<NewCell(5, Num(2))>> ELSE <<NewCell(5, Str(3))>>]

\* row.seqNo, row.sampleName, row.travelerNo, row.materialType, row.controlType
StaticField(r, c) == Num(10 * r + c)

\* data.value.metadata.schema.serviceItems: the first lists the travelerNo of
\* row 1, the second has an empty list, the third has no travelerNo property
\* (hasTravelerNo FALSE).  No service item has siIndex UnknownServiceItem.
ServiceItems ==
  << [siIndex |-> 1, hasTravelerNo |-> TRUE, travelerNo |-> <<StaticField(1, 2)>>],
     [siIndex |-> 2, hasTravelerNo |-> TRUE, travelerNo |-> <<>>],
     [siIndex |-> 3, hasTravelerNo |-> FALSE, travelerNo |-> <<>>] >>
UnknownServiceItem == Len(ServiceItems) + 1

\* ------------------------------------------------------------------- state
VARIABLES
  data,               \* identity of the payload data.value refers to (0: null)
  rows,               \* data.value.rows[r].values, per rowIndex
  rowMapCache,        \* keys of rowMapCache
  cellMapCache,       \* rowIndex -> [has, m]: m maps columnIndex to a position in values (0: no entry)
  lastDataRefForMaps, \* identity of the payload lastDataRefForMaps.value refers to (0: null)
  rowMapDirty,        \* computed rowMap must re-evaluate on its next read
  cellMapDirty,       \* computed cellMap must re-evaluate on its next read
  changedRowIndices,
  isBatching,
  batchChangedRows,
  hasUnsavedChanges,
  filter,             \* the filter state and the memo of the filteredColumns computed
  proj,               \* the grid component's caches and its tabulatorData computed
  io,                 \* apiEndpoint, loading, error and the requests of loadData and saveData
  last,               \* history: the last operation other than a read, its arguments and outcome
  mutations,          \* history: number of mutation calls made so far
  batchMutated,       \* history: rows of the mutations applied since startBatch()
  batchMutations,     \* history: number of mutations applied since startBatch()
  batchSignals,       \* history: triggerRef(data) calls issued since startBatch()
  fmt,                \* the dataset and the result of the cell formatter
  grid                \* the grid action in progress, the correction dialog, actions started

storeVars == <<data, rows, rowMapCache, cellMapCache, lastDataRefForMaps, rowMapDirty,
               cellMapDirty, changedRowIndices, isBatching, batchChangedRows,
               hasUnsavedChanges, filter, proj, io>>
historyVars == <<last, mutations, batchMutated, batchMutations, batchSignals>>
vars == <<storeVars, historyVars, grid, fmt>>

\* The store as one value, so that an operation can call another.
Store ==
  [data |-> data, rows |-> rows, rowMapCache |-> rowMapCache,
   cellMapCache |-> cellMapCache, lastDataRefForMaps |-> lastDataRefForMaps,
   rowMapDirty |-> rowMapDirty, cellMapDirty |-> cellMapDirty,
   changedRowIndices |-> changedRowIndices, isBatching |-> isBatching,
   batchChangedRows |-> batchChangedRows, hasUnsavedChanges |-> hasUnsavedChanges,
   filter |-> filter, proj |-> proj, io |-> io,
   \* per call: triggerRef(data) calls issued, Maps replaced in cellMapCache,
   \* and whether a mutation ran to its end
   signals |-> 0, rebuilt |-> {}, applied |-> FALSE]

\* ---------------------------------------------------------- reactive layer
\* triggerRef(data): one invalidation signal; every computed reading data.value
\* becomes dirty.
TriggerRef(S) ==
  [S EXCEPT !.signals = @ + 1, !.rowMapDirty = TRUE, !.cellMapDirty = TRUE,
            !.filter.dirty = TRUE, !.proj.dirty = TRUE]

\* changedRowIndices.value.add(r): a reactive Set triggers its readers only
\* when the element is new.
AddChanged(S, r) ==
  IF r \in S.changedRowIndices THEN S
  ELSE [S EXCEPT !.changedRowIndices = @ \cup {r},
                 !.rowMapDirty = TRUE, !.cellMapDirty = TRUE,
                 !.proj.dirty = @ \/ S.proj.tracked]

\* ---------------------------------------------------------- indexing layer
\* the keys a row's Map is asked for: the static and the dynamic columns
StaticCols == 0..(STATIC_COLUMN_COUNT - 1)
\* the columns that hold cells: the two addressed by the handlers, and the
\* result column of the second service item
MapCols == StaticCols \cup DynCols \cup {10}

NoMap == [has |-> FALSE, m |-> [c \in MapCols |-> 0]]

\* the element that forEach(cell => map.set(cell.columnIndex, cell)) leaves
\* under key c: the last one of that column
LastIndexOf(vals, c) ==
  LET I == {i \in 1..Len(vals) : vals[i].columnIndex = c}
  IN IF I = {} THEN 0 ELSE CHOOSE i \in I : \A j \in I : j <= i

BuildRowCellMap(vals) ==
  [has |-> TRUE, m |-> [c \in MapCols |-> LastIndexOf(vals, c)]]

\* computed rowMap: evaluated when read while dirty
RowMapEval(S) ==
  IF ~S.rowMapDirty THEN S
  ELSE IF S.data = 0 THEN
    [S EXCEPT !.rowMapCache = {},
              !.cellMapCache = [r \in RowIndices |-> NoMap],
              !.rebuilt = RowIndices,
              !.cellMapDirty = @ \/ S.lastDataRefForMaps # 0,
              !.lastDataRefForMaps = 0,
              !.rowMapDirty = FALSE]
  ELSE IF S.data # S.lastDataRefForMaps THEN
    [S EXCEPT !.rowMapCache = RowIndices,
              !.cellMapCache = [r \in RowIndices |-> NoMap],
              !.rebuilt = RowIndices,
              !.lastDataRefForMaps = S.data,
              !.cellMapDirty = TRUE,
              !.rowMapDirty = FALSE]
  ELSE [S EXCEPT !.rowMapCache = RowIndices, !.rowMapDirty = FALSE]

\* computed cellMap: evaluated when read while dirty
CellMapEval(S) ==
  IF ~S.cellMapDirty THEN S
  ELSE IF S.data = 0 THEN
    [S EXCEPT !.cellMapCache = [r \in RowIndices |-> NoMap],
              !.rebuilt = RowIndices,
              !.cellMapDirty = FALSE]
  ELSE
    LET cleared == S.data # S.lastDataRefForMaps
        needsRebuild(r) ==
          cleared \/ r \in S.changedRowIndices \/ ~S.cellMapCache[r].has
    IN [S EXCEPT !.cellMapCache =
                    [r \in RowIndices |->
                       IF needsRebuild(r) THEN BuildRowCellMap(S.rows[r])
                       ELSE S.cellMapCache[r]],
                 !.rebuilt = @ \cup {r \in RowIndices : needsRebuild(r)},
                 !.cellMapDirty = FALSE]

\* the variant of getCellValue that looks every column up in the row's Map
GetCellValueFromValues(S, r, c) ==
  LET S1 == CellMapEval(S)
      i == IF S1.cellMapCache[r].has THEN S1.cellMapCache[r].m[c] ELSE 0
  IN [st |-> S1,
      val |-> IF i = 0 THEN Null ELSE Coalesce(S1.rows[r][i].value, Null)]

\* getCellValue(row, columnIndex): [st |-> the store after the read, val |-> the result]
GetCellValue(S, r, c) ==
  IF c < STATIC_COLUMN_COUNT THEN [st |-> S, val |-> StaticField(r, c)]
  ELSE LET S1 == CellMapEval(S)
           i == IF S1.cellMapCache[r].has THEN S1.cellMapCache[r].m[c] ELSE 0
       IN [st |-> S1,
           val |-> IF i = 0 THEN Null ELSE Coalesce(S1.rows[r][i].value, Null)]

GetCellValueByIndex(S, r, c) ==
  IF S.data = 0 THEN [st |-> S, val |-> Null]
  ELSE LET S1 == RowMapEval(S)
       IN IF r \notin RowIndices THEN [st |-> S1, val |-> Null]
          ELSE GetCellValue(S1, r, c)

\* ------------------------------------------------------------ mutation API
\* rowMapCache.get(rowIndex), else data.value.rows.find(...) and cache it
EnsureRow(S, r) == [S EXCEPT !.rowMapCache = @ \cup {r}]

\* cellMapCache.get(rowIndex), else build the row's Map and cache it
EnsureRowCellMap(S, r) ==
  IF S.cellMapCache[r].has THEN S
  ELSE [S EXCEPT !.cellMapCache[r] = BuildRowCellMap(S.rows[r])]

\* variant: the mutation notifies the reactive layer also while batching
TrackChangeAlwaysNotifies(S, r) == TriggerRef(AddChanged(S, r))

\* if (isBatching) batchChangedRows.add(r) else { changedRowIndices.add(r); triggerRef(data) }
TrackChange(S, r) ==
  IF S.isBatching THEN [S EXCEPT !.batchChangedRows = @ \cup {r}]
  ELSE TriggerRef(AddChanged(S, r))

\* the common tail of the four mutations
Finish(S, r) ==
  [TrackChange(S, r) EXCEPT !.hasUnsavedChanges = TRUE, !.applied = TRUE]

\* variant: setCellValue without the test of data.value
SetCellValueUnguarded(S, r, c, v, src) ==
  IF r \notin RowIndices THEN S
  ELSE
    LET S1 == EnsureRowCellMap(EnsureRow(S, r), r)
        i == S1.cellMapCache[r].m[c]
        S2 == IF i # 0
              THEN [S1 EXCEPT !.rows[r][i].value = v,
                              !.rows[r][i].copiedFrom = IF src # 0 THEN src ELSE @]
              ELSE [S1 EXCEPT !.rows[r] =
                       Append(@, [NewCell(c, v) EXCEPT !.copiedFrom = src])]
    IN Finish(S2, r)

SetCellValue(S, r, c, v, src) ==
  IF S.data = 0 \/ r \notin RowIndices THEN S
  ELSE
    LET S1 == EnsureRowCellMap(EnsureRow(S, r), r)
        i == S1.cellMapCache[r].m[c]
        S2 == IF i # 0
              THEN [S1 EXCEPT !.rows[r][i].value = v,
                              !.rows[r][i].copiedFrom = IF src # 0 THEN src ELSE @]
              ELSE [S1 EXCEPT !.rows[r] =
                       Append(@, [NewCell(c, v) EXCEPT !.copiedFrom = src])]
    IN Finish(S2, r)

MarkFinal(cell) == [cell EXCEPT !.isFinal = TRUE, !.markedFinalAt = TRUE]

\* the cell is not in the row's Map: G is what getCellValueByIndex returned
MarkAbsentCellFinal(G, r, c) ==
  LET S2 == G.st
      n == Len(S2.rows[r]) + 1
      \* rowCellMap.set(columnIndex, cell) reaches the cached Map only
      \* if the read above did not replace it
      S3 == [S2 EXCEPT
               !.rows[r] = Append(@, MarkFinal(NewCell(c, G.val))),
               !.cellMapCache[r].m[c] = IF r \in S2.rebuilt THEN @ ELSE n]
  IN IF G.val = Null \/ G.val = EmptyStr THEN S2
     ELSE Finish(S3, r)

MarkResultCellFinal(S, r, c) ==
  IF S.data = 0 \/ r \notin RowIndices THEN S
  ELSE
    LET S1 == EnsureRowCellMap(EnsureRow(S, r), r)
        i == S1.cellMapCache[r].m[c]
    IN IF i # 0
       THEN Finish([S1 EXCEPT !.rows[r][i] = MarkFinal(@)], r)
       ELSE MarkAbsentCellFinal(GetCellValueByIndex([S1 EXCEPT !.rebuilt = {}], r, c),
                                r, c)

\* position of element i after values.filter(cell => cell.columnIndex !== c)
IndexAfterFilter(vals, c, i) ==
  Cardinality({j \in 1..i : vals[j].columnIndex # c})

\* variant: the cell is emptied in place instead of being removed
ClearResultCellKeepsCell(S, r, c) ==
  IF S.data = 0 \/ r \notin RowIndices THEN S
  ELSE
    LET S1 == EnsureRow(S, r)
        S2 == [S1 EXCEPT !.rows[r] =
                 [i \in 1..Len(@) |->
                    IF @[i].columnIndex = c THEN [@[i] EXCEPT !.value = Null] ELSE @[i]]]
    IN Finish(S2, r)

ClearResultCell(S, r, c) ==
  IF S.data = 0 \/ r \notin RowIndices THEN S
  ELSE
    LET S1 == EnsureRow(S, r)
        vals == S1.rows[r]
        old == S1.cellMapCache[r]
        S2 == [S1 EXCEPT
                 !.rows[r] = SelectSeq(vals, LAMBDA cell : cell.columnIndex # c),
                 !.cellMapCache[r] =
                    IF ~old.has THEN old
                    ELSE [old EXCEPT !.m =
                            [d \in MapCols |->
                               IF d = c \/ old.m[d] = 0 THEN 0
                               ELSE IndexAfterFilter(vals, c, old.m[d])]]]
    IN Finish(S2, r)

\* variant: every correction starts from the current value and stores it as
\* the original
CorrectedFromCurrentValue(cell, b, m) ==
  LET c1 == [cell EXCEPT
               !.baselineCorrection = IF b # Undef THEN b ELSE @,
               !.multiplier = IF m # Undef THEN m ELSE @]
      parsed == ParseFloat(c1.value)
      plusB == IF b # Undef THEN parsed.n + b.n ELSE parsed.n
      timesM == IF m # Undef THEN plusB * m.n ELSE plusB
  IN IF c1.value # Null /\ c1.value # EmptyStr /\ parsed # NaN
     THEN [c1 EXCEPT !.originalValue = parsed, !.value = Num(timesM)]
     ELSE c1

\* the cell after the body of setManualCorrection (lines 427-459)
Corrected(cell, b, m) ==
  LET c1 == [cell EXCEPT
               !.baselineCorrection = IF b # Undef THEN b ELSE @,
               !.multiplier = IF m # Undef THEN m ELSE @]
      originalValue == Coalesce(c1.originalValue, c1.value)
      parsed == ParseFloat(originalValue)
      plusB == IF b # Undef THEN parsed.n + b.n ELSE parsed.n
      timesM == IF m # Undef THEN plusB * m.n ELSE plusB
  IN IF (b # Undef \/ m # Undef)
        /\ originalValue # Null /\ originalValue # EmptyStr
        /\ parsed # NaN
     THEN [c1 EXCEPT
             !.originalValue = IF @ = Undef THEN parsed ELSE @,
             !.value = Num(timesM)]
     ELSE c1

SetManualCorrection(S, r, c, b, m) ==
  IF S.data = 0 \/ r \notin RowIndices THEN S
  ELSE
    LET S1 == EnsureRowCellMap(EnsureRow(S, r), r)
        i0 == S1.cellMapCache[r].m[c]
        n == Len(S1.rows[r]) + 1
        S2 == IF i0 # 0 THEN S1
              ELSE [S1 EXCEPT !.rows[r] = Append(@, NewCell(c, Null)),
                              !.cellMapCache[r].m[c] = n]
        i == IF i0 # 0 THEN i0 ELSE n
        S3 == [S2 EXCEPT !.rows[r][i] = Corrected(@, b, m)]
    IN Finish(S3, r)

\* ----------------------------------------------------- batching controller
StartBatch(S) == [S EXCEPT !.isBatching = TRUE, !.batchChangedRows = {}]

\* merging the pending rows one add at a time is the union
MergeChanged(S, pending) ==
  IF pending \subseteq S.changedRowIndices THEN S
  ELSE [S EXCEPT !.changedRowIndices = @ \cup pending,
                 !.rowMapDirty = TRUE, !.cellMapDirty = TRUE,
                 !.proj.dirty = @ \/ S.proj.tracked]

\* variant: endBatch() drops the pending rows instead of merging them
EndBatchDropsPending(S) ==
  IF ~S.isBatching THEN S
  ELSE TriggerRef([S EXCEPT !.isBatching = FALSE, !.batchChangedRows = {}])

\* variant: endBatch() without the test of isBatching
EndBatchWithoutTest(S) ==
  TriggerRef([MergeChanged(S, S.batchChangedRows)
                EXCEPT !.isBatching = FALSE, !.batchChangedRows = {}])

EndBatch(S) ==
  IF ~S.isBatching THEN S
  ELSE TriggerRef([MergeChanged(S, S.batchChangedRows)
                     EXCEPT !.isBatching = FALSE, !.batchChangedRows = {}])

\* changedRowIndices.value.clear(): triggers only if the Set had elements
ClearChangedRows(S) ==
  IF S.changedRowIndices = {} THEN S
  ELSE [S EXCEPT !.changedRowIndices = {},
                 !.rowMapDirty = TRUE, !.cellMapDirty = TRUE,
                 !.proj.dirty = @ \/ S.proj.tracked]

\* data.value = payload, of a payload that is not the object data.value holds
\* (hasUnsavedChanges was assigned before, at the start of loadData())
LoadSample(S) ==
  [S EXCEPT !.data = 1, !.rows = SampleRows,
            !.rowMapDirty = TRUE, !.cellMapDirty = TRUE, !.filter.dirty = TRUE,
            !.proj.dirty = TRUE]

\* ------------------------------------------------------------------ inputs
\* the cells the calls are made on: the result cell of both rows (absent in
\* the sample) and the rawdata cell of row 1 (present in the sample)
CallCells == {<<1, 5>>, <<1, 6>>, <<2, 6>>}
\* <<value, sourceColumnCode>> (0: no source label given)
InputSets == {<<Num(1), 5>>, <<EmptyStr, 0>>}
\* <<baselineCorrection, multiplier>>
InputCorrections == {<<Num(1), Undef>>, <<Undef, Num(2)>>, <<Num(1), Num(2)>>}

Op(name, r, c, v) ==
  [op |-> name, r |-> r, c |-> c, v |-> v, batching |-> isBatching,
   applied |-> FALSE, sig |-> 0, n |-> 0, batchSig |-> 0]

NoArgs(name) == Op(name, 0, 0, Undef)

MutationOps ==
  {"setCellValue", "markResultCellFinal", "clearResultCell", "setManualCorrection"}

\* an array object: its identity and the columnIndex of its elements in order
Array(id, cols) == [id |-> id, cols |-> cols]

\* the filter state after construction; the filteredColumns computed has never
\* been evaluated.  selectedServiceItemIndex 0 stands for null, a cacheKey <<>>
\* for the empty string.  dirty, tracked and value are the computed itself:
\* whether it must re-run, whether its last run read the three filter refs, and
\* the array it returned.  lastEval records the latest evaluation on a loaded
\* dataset: its key, the array returned, and whether a re-run returned the memo;
\* prevEval the latest evaluation before it that had another key.  timers holds,
\* for each debounced setter, the argument of the latest call while its timer
\* runs (<<>>: no timer).
NoTimers == [serviceItem |-> <<>>, reportableOnly |-> <<>>, viewMode |-> <<>>]

NoFilter ==
  [selectedServiceItemIndex |-> 0, showReportableOnly |-> TRUE, viewMode |-> "qc",
   filteredColumnsCache |-> Array(1, <<>>), filteredColumnsCacheKey |-> <<>>,
   lastDataRefForColumns |-> 0,
   filterChangeCounter |-> 0, isFiltering |-> FALSE,
   dirty |-> TRUE, tracked |-> FALSE, value |-> Array(0, <<>>),
   lastEval |-> [key |-> <<>>, id |-> 0, hit |-> FALSE],
   prevEval |-> [key |-> <<>>, id |-> 0],
   timers |-> NoTimers]

\* an array of row objects: its identity and its entries in order
TabArray(id, entries) == [id |-> id, rows |-> entries]

\* the grid component after setup: the caches are empty and tabulatorData has
\* never been evaluated (value.id 0: undefined).  lastFilteredRowsCount -1
\* stands for null, cachedColumnIndicesString <<>> for the empty string.
\* dirty, tracked and value are the computed itself; pending lists the grid
\* updates whose promise has not settled.  evaluations is the parity of the
\* number of evaluations; path, colsChanged, rowsChanged, changed, indices and
\* count record the last one: the branch it took, its two flags, the
\* changedRowIndices it read, and the filtered column indices and filtered row
\* count it saw.
NoProjection ==
  [lastDataRef |-> 0, lastFilteredRowsCount |-> -1,
   previousTabulatorData |-> TabArray(1, <<>>),
   cachedFilteredColumns |-> <<>>, cachedColumnIndicesString |-> <<>>,
   needsFormatterRefresh |-> FALSE, lastColumnFields |-> <<>>, mounted |-> FALSE,
   dirty |-> TRUE, tracked |-> FALSE, value |-> TabArray(0, <<>>),
   pending |-> <<>>,
   evaluations |-> 0, path |-> "none", colsChanged |-> FALSE, rowsChanged |-> FALSE, changed |-> {},
   indices |-> <<>>, count |-> -1]

\* no dataset for the cell formatter, no cell classified (column 0)
NoFormat ==
  [loaded |-> FALSE, rows |-> <<>>, lowerLimit |-> EmptyStr, upperLimit |-> EmptyStr,
   row |-> 0, column |-> 0, cls |-> ""]

\* no grid action in progress, the correction dialog closed
\* signals, processed: the triggerRef(data) calls issued and the cells handed to
\* the processor by the handler in progress, or by the last one that ended
\* two invocations of a bulk handler that may overlap: the state of each, and
\* history: the rows it mutated that have not been in changedRowIndices
\* since (owed), and the rows owed when it ended (lost)
Slots == {1, 2}
NoBulk == [phase |-> "idle", cells |-> <<>>, done |-> 0, shouldBatch |-> FALSE,
           yielded |-> FALSE, owed |-> {}, lost |-> {}]

\* no call of processInChunks: pc is where the call stands ("idle": none,
\* "loop": at the test of the inner loop, "processor": at await
\* processor(item, index), "yield": at the await of the timeout, "done":
\* returned); total, chunkSize, progressUpdateInterval and onProgress are its
\* arguments, i and chunkIndex its loop variables.  History: the index of each
\* processor invocation, the number of items processed at each yield, the
\* reports made to onProgress.
NoChunks ==
  [pc |-> "idle", total |-> 0, chunkSize |-> 1, progressUpdateInterval |-> 1,
   onProgress |-> FALSE, i |-> 0, chunkIndex |-> 0,
   invoked |-> <<>>, yields |-> <<>>, reports |-> <<>>]

\* the loading store after construction: isVisible, message and progress;
\* elapsed is Date.now() - showTime, counted up to minDisplayTime (showTime
\* starts at 0); hideTimeout is the handle it holds (0: null) and timers the
\* timeouts that run, each with its handle and the time left.  History:
\* wanted, the last call was show(); calls, the show() and hide() calls made.
NoOverlay ==
  [isVisible |-> FALSE, message |-> "", progress |-> <<0, 0>>,
   elapsed |-> MinDisplayTime, hideTimeout |-> 0, timers |-> {},
   wanted |-> FALSE, calls |-> 0]

NoGrid == [kind |-> "none", cells |-> <<>>, done |-> 0, shouldBatch |-> FALSE,
           arg |-> Undef, dialog |-> 0, started |-> 0, entered |-> FALSE,
           signals |-> 0, processed |-> <<>>, yielded |-> FALSE,
           \* history: the last handler invoked through invokeHandler, the
           \* column it was given, and whether a grid instance existed
           invoked |-> [kind |-> "none", column |-> 0, hasInstance |-> FALSE, n |-> 0],
           \* history: the index in cells of the item whose processor threw (0: none)
           failed |-> 0,
           \* the rows the request items of the last context menu hold, and
           \* history: the context menus built
           offered |-> <<>>, menus |-> 0,
           overlay |-> NoOverlay,
           chunks |-> NoChunks,
           bulk |-> [i \in Slots |-> NoBulk]]

\* ----------------------------------------------------------- filter engine
MaxFilterChanges == 3

ViewModes == {"qc", "report", "customer"}
ServiceItemInputs == {0} \cup {si.siIndex : si \in {ServiceItems[i] : i \in DOMAIN ServiceItems}}
                         \cup {UnknownServiceItem}

ColumnDef(c) == ColumnDefinitions[c - STATIC_COLUMN_COUNT + 1]
IsStatic(c) == c < STATIC_COLUMN_COUNT

\* allColumns: the five static columns, then the column definitions
AllColumns(S) ==
  IF S.data = 0 THEN <<>>
  ELSE <<0, 1, 2, 3, 4>> \o [i \in DOMAIN ColumnDefinitions |-> ColumnDefinitions[i].columnIndex]

\* identities of array objects: the least one that is not in use
ArrayIds == 1 .. 6
Fresh(used) == CHOOSE i \in ArrayIds : i \notin used /\ \A j \in 1 .. (i - 1) : j \in used

\* a key that leaves the view mode out
CacheKeyWithoutViewMode(F) == <<F.selectedServiceItemIndex, F.showReportableOnly, "qc">>

\* `${selectedServiceItemIndex ?? 'null'}-${showReportableOnly}-${viewMode}`:
\* the three parts can be read back from the string, so it is the triple
CacheKey(F) == <<F.selectedServiceItemIndex, F.showReportableOnly, F.viewMode>>

\* the three stages of filteredColumns
ServiceItemStage(F, columns) ==
  IF F.selectedServiceItemIndex # 0
  THEN SelectSeq(columns, LAMBDA c :
         IsStatic(c) \/ ColumnDef(c).serviceItemIndex = F.selectedServiceItemIndex)
  ELSE columns

ReportableAnalyteIndices ==
  {Analytes[i].analyteIndex : i \in {j \in DOMAIN Analytes : Analytes[j].reportable = TRUE}}

ReportableStage(F, columns) ==
  IF F.showReportableOnly
  THEN SelectSeq(columns, LAMBDA c :
         IsStatic(c) \/ ColumnDef(c).analyteIndex \in ReportableAnalyteIndices)
  ELSE columns

ReportStageKeeps(c) ==
  IF IsStatic(c) THEN TRUE
  ELSE IF ColumnDef(c).columnType = "correction" THEN FALSE
  ELSE IF ColumnDef(c).columnType = "rawdata" /\ ColumnDef(c).isSelected = "false" THEN FALSE
  ELSE TRUE

ReportStage(F, columns) ==
  IF F.viewMode = "report" THEN SelectSeq(columns, ReportStageKeeps) ELSE columns

\* a getter that filters again on every run
FilteredColumnsWithoutMemo(S) ==
  LET F == S.filter
      columns == Array(Fresh({F.filteredColumnsCache.id, F.value.id, F.lastEval.id,
                              F.prevEval.id}),
                       ReportStage(F, ReportableStage(F, ServiceItemStage(F, AllColumns(S)))))
  IN [S EXCEPT !.filter = [F EXCEPT !.filteredColumnsCache = columns,
                                    !.filteredColumnsCacheKey = CacheKey(F),
                                    !.lastDataRefForColumns = S.data,
                                    !.value = columns,
                                    !.dirty = FALSE, !.tracked = TRUE]]

\* the getter of the filteredColumns computed, after the test of the data
\* reference: F1 is the filter state the test leaves, columns the array the
\* three stages make when the memo does not apply
FilteredColumnsMemo(S, F1, columns) ==
  IF F1.filteredColumnsCacheKey = CacheKey(F1) /\ Len(F1.filteredColumnsCache.cols) > 0
  THEN [S EXCEPT !.filter =
          [F1 EXCEPT !.value = F1.filteredColumnsCache,
                     !.dirty = FALSE, !.tracked = TRUE]]
  ELSE [S EXCEPT !.filter =
          [F1 EXCEPT !.filteredColumnsCache = columns,
                     !.filteredColumnsCacheKey = CacheKey(F1),
                     !.value = columns,
                     !.dirty = FALSE, !.tracked = TRUE]]

FilteredColumnsStages(S, F1, used) ==
  FilteredColumnsMemo(S, F1,
    Array(Fresh(used \cup {F1.filteredColumnsCache.id}),
          ReportStage(F1, ReportableStage(F1, ServiceItemStage(F1, AllColumns(S))))))

\* the getter of the filteredColumns computed
FilteredColumns(S) ==
  LET F == S.filter
      used == {F.filteredColumnsCache.id, F.value.id, F.lastEval.id, F.prevEval.id}
  IN IF S.data = 0
     THEN LET a == Fresh(used)
          IN [S EXCEPT !.filter =
                [F EXCEPT !.filteredColumnsCache = Array(a, <<>>),
                          !.filteredColumnsCacheKey = <<>>,
                          !.value = Array(Fresh(used \cup {a}), <<>>),
                          !.dirty = FALSE, !.tracked = FALSE]]
     ELSE FilteredColumnsStages(S,
            IF S.data # F.lastDataRefForColumns
            THEN [F EXCEPT !.filteredColumnsCache = Array(Fresh(used), <<>>),
                           !.filteredColumnsCacheKey = <<>>,
                           !.lastDataRefForColumns = S.data]
            ELSE F,
            used)

\* filteredRows, as rowIndex values in order
FindServiceItem(siIndex) ==
  LET found == {i \in DOMAIN ServiceItems : ServiceItems[i].siIndex = siIndex}
  IN IF found = {} THEN 0 ELSE CHOOSE i \in found : \A j \in found : i <= j

InList(x, list) == \E i \in DOMAIN list : list[i] = x

\* a row filter that shows every row when the service item lists no traveler
FilteredRowsEmptyListShowsAll(S) ==
  IF S.data = 0 THEN <<>>
  ELSE LET si == FindServiceItem(S.filter.selectedServiceItemIndex)
       IN IF si # 0 /\ Len(ServiceItems[si].travelerNo) > 0
          THEN SelectSeq(<<1, 2>>, LAMBDA r : InList(StaticField(r, 2), ServiceItems[si].travelerNo))
          ELSE <<1, 2>>

FilteredRows(S) ==
  IF S.data = 0 THEN <<>>
  ELSE LET rowsAll == <<1, 2>>
           sel == S.filter.selectedServiceItemIndex
           si == FindServiceItem(sel)
       IN IF sel # 0
          THEN IF si # 0 /\ ServiceItems[si].hasTravelerNo /\ Len(ServiceItems[si].travelerNo) > 0
               THEN SelectSeq(rowsAll, LAMBDA r : InList(StaticField(r, 2), ServiceItems[si].travelerNo))
               ELSE <<>>
          ELSE rowsAll

\* assignment to one of the three filter refs: dependents are notified only
\* when the value changes
SetFilterRef(F, name, v) ==
  IF F[name] = v THEN F
  ELSE [F EXCEPT ![name] = v, !.dirty = @ \/ F.tracked]

CountFilterChange(F) == [F EXCEPT !.filterChangeCounter = @ + 1]

\* the grid component's watchers of the filter state (flush: 'sync'): the one
\* of filterChangeCounter empties the column caches and previousTabulatorData,
\* the one of selectedServiceItemIndex empties previousTabulatorData; a change
\* of one of the three filter refs reaches tabulatorData through
\* filteredColumns and filteredRows.  S is the store after the assignment, old
\* the filter state before it.
FilterWatchers(S, old) ==
  LET counted == S.filter.filterChangeCounter # old.filterChangeCounter
      selected == S.filter.selectedServiceItemIndex # old.selectedServiceItemIndex
      empty == TabArray(Fresh({S.proj.value.id}), <<>>)
  IN [S EXCEPT !.proj.cachedFilteredColumns = IF counted THEN <<>> ELSE @,
               !.proj.cachedColumnIndicesString = IF counted THEN <<>> ELSE @,
               !.proj.previousTabulatorData = IF counted \/ selected THEN empty ELSE @,
               !.proj.dirty = @ \/ (S.proj.tracked /\ CacheKey(S.filter) # CacheKey(old))]

\* ------------------------------------------------------------- projection
\* The grid component (DataTableGrid.vue): the tabulatorData computed, the
\* watcher that hands its value to the grid, and the grid update whose
\* completion calls clearChangedRows().  rowCache and lastFilteredColumns are
\* written by this code and read nowhere; they are left out.
MaxPendingUpdates == 2

\* the row objects an array holds, by identity
RowObjectIds(a) == {a.rows[i].id : i \in DOMAIN a.rows}

\* cellValueMap.get(columnIndex) ?? null: forEach(cell => map.set(...)) leaves
\* the last entry of a column
ProjectedValue(vals, c) ==
  LET i == LastIndexOf(vals, c)
  IN IF i = 0 THEN Null ELSE Coalesce(vals[i].value, Null)

SeqToSet(q) == {q[i] : i \in DOMAIN q}

\* buildSingleRowData(rowIndex): [st |-> the component after the call, val |->
\* the row object (id 0: null)].  The keys of the object are rowIndex, col_0 ..
\* col_4 and col_c of every dynamic column in columnsToUse.
\* the row object of buildSingleRowData: S1 is the state after columnsToUse
\* was settled (it is cachedFilteredColumns of S1)
BuildRowObject(S1, rowIndex, id) ==
  LET columnsToUse == S1.proj.cachedFilteredColumns
      keys == (0 .. (STATIC_COLUMN_COUNT - 1))
                \cup {c \in SeqToSet(columnsToUse) : c >= STATIC_COLUMN_COUNT}
  IN [st |-> S1,
      val |-> [id |-> id, rowIndex |-> rowIndex,
               cols |-> [c \in keys |->
                           IF c < STATIC_COLUMN_COUNT THEN StaticField(rowIndex, c)
                           ELSE ProjectedValue(S1.rows[rowIndex], c)]]]

\* cachedFilteredColumns = store.filteredColumns.map(col => col.columnIndex)
CacheFilteredColumns(SF) ==
  [SF EXCEPT !.proj.cachedFilteredColumns = SF.filter.value.cols]

BuildSingleRowData(S, rowIndex, id) ==
  IF S.data = 0 \/ rowIndex \notin RowIndices
  THEN [st |-> S, val |-> [id |-> 0, rowIndex |-> rowIndex, cols |-> <<>>]]
  ELSE IF Len(S.proj.cachedFilteredColumns) = 0
       THEN BuildRowObject(
              CacheFilteredColumns(IF S.filter.dirty THEN FilteredColumns(S) ELSE S),
              rowIndex, id)
       ELSE BuildRowObject(S, rowIndex, id)

\* arr1[i][key] !== arr2[i][key]: NaN differs from itself
StrictEquals(a, b) == a = b /\ a # NaN

RowsEqual(x, y) ==
  /\ x.rowIndex = y.rowIndex
  /\ Cardinality(DOMAIN x.cols) = Cardinality(DOMAIN y.cols)
  /\ \A c \in DOMAIN x.cols :
       IF c \in DOMAIN y.cols THEN StrictEquals(x.cols[c], y.cols[c]) ELSE x.cols[c] = Undef

ArraysEqual(arr1, arr2) ==
  /\ Len(arr1) = Len(arr2)
  /\ \A i \in DOMAIN arr1 : RowsEqual(arr1[i], arr2[i])

\* store.filteredRows.forEach(row => { rowObj = buildSingleRowData(row.rowIndex);
\* if (rowObj) result.push(rowObj) })
RECURSIVE RebuildRows(_, _, _, _)
\* if (rowObj) result.push(rowObj), and the rows after it; B is what
\* buildSingleRowData returned for the head of todo
RebuildPush(B, todo, used, result) ==
  RebuildRows(B.st, Tail(todo), used \cup {B.val.id},
              IF B.val.id # 0 THEN Append(result, B.val) ELSE result)

RebuildRows(S, todo, used, result) ==
  IF todo = <<>> THEN [st |-> S, val |-> result]
  ELSE RebuildPush(BuildSingleRowData(S, Head(todo), Fresh(used)), todo, used, result)

\* variant: the entry of a row is never found
FindIndexNotFound(result, rowIndex) == 0

\* result.findIndex(r => r.rowIndex === rowIndex) (0: not found)
FindIndex(result, rowIndex) ==
  LET I == {i \in DOMAIN result : result[i].rowIndex = rowIndex}
  IN IF I = {} THEN 0 ELSE CHOOSE i \in I : \A j \in I : i <= j

\* store.changedRowIndices.forEach(rowIndex => ...): the entry of the row is
\* replaced, a row that has no entry is appended
RECURSIVE ReplaceRows(_, _, _, _)
\* result[index] = rowObj or result.push(rowObj), and the rows after it; B is
\* what buildSingleRowData returned for rowIndex
ReplaceOrPush(B, rowIndex, todo, used, result) ==
  LET index == FindIndex(result, rowIndex)
  IN ReplaceRows(B.st, todo \ {rowIndex}, used \cup {B.val.id},
                 IF B.val.id = 0 THEN result
                 ELSE IF index > 0 THEN [result EXCEPT ![index] = B.val]
                 ELSE Append(result, B.val))

\* the least row of todo
FirstRow(todo) == CHOOSE r \in todo : \A q \in todo : r <= q

ReplaceRows(S, todo, used, result) ==
  IF todo = {} THEN [st |-> S, val |-> result]
  ELSE ReplaceOrPush(BuildSingleRowData(S, FirstRow(todo), Fresh(used)),
                     FirstRow(todo), todo, used, result)

\* The getter of the tabulatorData computed is written as its successive
\* steps; each step takes the state S at the call and what the statements
\* before it computed.  L holds the getter's local constants
\* (currentColumnIndices, filteredColsChanged, filteredRows,
\* currentFilteredRowsCount, filteredRowsChanged).

\* previousTabulatorData = result; lastFilteredRowsCount = ...; the stability
\* test and the return.  T is the state after the rows were built.
TabulatorDataReturn(S, T, L, path, result) ==
  LET oldValue == S.proj.value
      stable == /\ ~S.proj.needsFormatterRefresh
                /\ oldValue.id # 0
                /\ Len(oldValue.rows) = Len(result.rows)
                /\ ArraysEqual(oldValue.rows, result.rows)
  IN [T EXCEPT !.proj.previousTabulatorData = result,
               !.proj.lastFilteredRowsCount = L.currentFilteredRowsCount,
               !.proj.value = IF stable THEN oldValue ELSE result,
               !.proj.dirty = FALSE, !.proj.tracked = TRUE,
               !.proj.evaluations = (@ + 1) % 2,
               !.proj.path = path,
               !.proj.colsChanged = L.filteredColsChanged,
               !.proj.rowsChanged = L.filteredRowsChanged,
               !.proj.changed = S.changedRowIndices,
               !.proj.indices = L.currentColumnIndices,
               !.proj.count = L.currentFilteredRowsCount]

\* result = [] / [...previousTabulatorData] filled by the loop B
TabulatorDataBuilt(S, B, L, path, created) ==
  TabulatorDataReturn(S, B.st, L, path, TabArray(created, B.val))

\* the three ways the result is made: previousTabulatorData itself, every
\* filtered row built again, or the changed rows replaced in a copy
TabulatorDataResult(S, S3, L) ==
  LET previous == S3.proj.previousTabulatorData
      arrays == {S.proj.previousTabulatorData.id, S.proj.value.id}
      objects == RowObjectIds(S.proj.previousTabulatorData) \cup RowObjectIds(S.proj.value)
      created == Fresh(arrays \cup {previous.id})
      path == IF /\ ~L.filteredColsChanged
                 /\ S.changedRowIndices = {}
                 /\ Len(previous.rows) = L.currentFilteredRowsCount
              THEN "reuse"
              ELSE IF L.filteredColsChanged \/ L.filteredRowsChanged
                      \/ Len(previous.rows) = 0
                   THEN "rebuild"
                   ELSE "incremental"
  IN CASE path = "reuse" -> TabulatorDataReturn(S, S3, L, path, previous)
       [] path = "rebuild" ->
            TabulatorDataBuilt(S, RebuildRows(S3, L.filteredRows, objects, <<>>),
                               L, path, created)
       [] path = "incremental" ->
            TabulatorDataBuilt(S, ReplaceRows(S3, S.changedRowIndices, objects,
                                              previous.rows),
                               L, path, created)

\* the test of the filtered rows: previousTabulatorData is emptied when the
\* columns or the number of rows changed.  P2 is the component after the test
\* of the columns.
TabulatorDataRows(S, SF, P2, currentColumnIndices, filteredColsChanged, filteredRows) ==
  LET currentFilteredRowsCount == Len(filteredRows)
      filteredRowsChanged == currentFilteredRowsCount # P2.lastFilteredRowsCount
      cleared == Fresh({S.proj.previousTabulatorData.id, S.proj.value.id})
      P3 == IF filteredColsChanged \/ filteredRowsChanged
            THEN [P2 EXCEPT !.lastFilteredRowsCount = currentFilteredRowsCount,
                            !.previousTabulatorData = TabArray(cleared, <<>>)]
            ELSE P2
  IN TabulatorDataResult(S, [SF EXCEPT !.proj = P3],
       [currentColumnIndices |-> currentColumnIndices,
        filteredColsChanged |-> filteredColsChanged,
        filteredRows |-> filteredRows,
        currentFilteredRowsCount |-> currentFilteredRowsCount,
        filteredRowsChanged |-> filteredRowsChanged])

\* the test of the data reference and of the filtered columns
TabulatorDataColumns(S, SF) ==
  LET P == S.proj
      P1 == IF S.data # P.lastDataRef
            THEN [P EXCEPT !.lastDataRef = S.data, !.lastFilteredRowsCount = -1]
            ELSE P
      currentColumnIndices == SF.filter.value.cols
      filteredColsChanged ==
        \/ Len(P1.cachedFilteredColumns) = 0
        \/ currentColumnIndices # P1.cachedColumnIndicesString
      P2 == IF filteredColsChanged
            THEN [P1 EXCEPT !.cachedFilteredColumns = currentColumnIndices,
                            !.cachedColumnIndicesString = currentColumnIndices]
            ELSE P1
  IN TabulatorDataRows(S, SF, P2, currentColumnIndices, filteredColsChanged,
                       FilteredRows(SF))

\* the getter of the tabulatorData computed; the value the computed holds is
\* its argument oldValue.  The Set changedRowIndices is walked in ascending
\* order: with two rows the order cannot show in the result.
TabulatorData(S) ==
  LET P == S.proj
      arrays == {P.previousTabulatorData.id, P.value.id}
  IN IF S.data = 0
     THEN LET a == Fresh(arrays)
          IN [S EXCEPT !.proj =
                [P EXCEPT !.lastDataRef = 0, !.lastFilteredRowsCount = -1,
                          !.previousTabulatorData = TabArray(a, <<>>),
                          !.cachedFilteredColumns = <<>>,
                          !.cachedColumnIndicesString = <<>>,
                          !.value = TabArray(Fresh(arrays \cup {a}), <<>>),
                          !.dirty = FALSE, !.tracked = FALSE,
                          !.evaluations = (@ + 1) % 2,
                          !.path = "nodata", !.colsChanged = FALSE,
                          !.rowsChanged = FALSE, !.changed = {},
                          !.indices = <<>>, !.count = -1]]
     ELSE TabulatorDataColumns(S, IF S.filter.dirty THEN FilteredColumns(S) ELSE S)

\* a grid update in flight: whether its then-callback lowers
\* needsFormatterRefresh and whether it lowers isFiltering
GridUpdate(lowersRefresh, lowersFiltering) ==
  [lowersRefresh |-> lowersRefresh, lowersFiltering |-> lowersFiltering]

\* the callback of watch([tabulatorData, tabulatorColumns]).  S is the state
\* after the two computeds were evaluated, oldData and oldColumns their
\* previous values; the grid instance exists.
WatchCallback(S, oldData, oldColumns) ==
  LET newData == S.proj.value
      currentFields == S.proj.indices
      lastColumnFields == IF Len(S.proj.lastColumnFields) = 0 /\ Len(currentFields) > 0
                          THEN currentFields ELSE S.proj.lastColumnFields
      columnsChanged == \/ Len(oldColumns) = 0
                        \/ Len(currentFields) # Len(oldColumns)
                        \/ currentFields # lastColumnFields
      changedRowCount == Cardinality(S.changedRowIndices)
      isSingleCellChange == changedRowCount = 1 /\ ~columnsChanged /\ Len(oldData.rows) > 0
      S1 == [S EXCEPT !.proj.lastColumnFields = lastColumnFields]
      Start(u) == [S1 EXCEPT !.proj.pending = Append(@, u)]
  IN IF isSingleCellChange THEN Start(GridUpdate(TRUE, FALSE))
     ELSE IF columnsChanged
          THEN [Start(GridUpdate(FALSE, TRUE)) EXCEPT !.proj.lastColumnFields = currentFields]
     ELSE IF Len(oldData.rows) = 0 THEN Start(GridUpdate(FALSE, TRUE))
     ELSE IF changedRowCount = 0 THEN [S1 EXCEPT !.filter.isFiltering = FALSE]
     ELSE IF 2 * changedRowCount < Len(newData.rows) THEN Start(GridUpdate(TRUE, FALSE))
     ELSE Start(GridUpdate(TRUE, TRUE))

\* The watcher of [tabulatorData, tabulatorColumns] is a job of the component's
\* scheduler: once the component is mounted, it runs at the end of every step
\* that changed a dependency of tabulatorData, before any other handler.  The
\* getter is evaluated, and the callback runs when tabulatorData or
\* tabulatorColumns returned another object.
WatchJob(S, E) ==
  LET fires == \/ E.proj.value.id # S.proj.value.id
               \/ E.filter.value.id # S.filter.value.id
  IN IF fires THEN WatchCallback(E, S.proj.value, S.proj.indices) ELSE E

WatchFlush(S) == WatchJob(S, TabulatorData(S))

Flush(S) == IF S.proj.mounted /\ S.proj.dirty THEN WatchFlush(S) ELSE S

\* the assignment of a state to the variables
Assign(T) ==
     /\ Len(T.proj.pending) <= MaxPendingUpdates
     /\ data' = T.data
     /\ rows' = T.rows
     /\ rowMapCache' = T.rowMapCache
     /\ cellMapCache' = T.cellMapCache
     /\ lastDataRefForMaps' = T.lastDataRefForMaps
     /\ rowMapDirty' = T.rowMapDirty
     /\ cellMapDirty' = T.cellMapDirty
     /\ changedRowIndices' = T.changedRowIndices
     /\ isBatching' = T.isBatching
     /\ batchChangedRows' = T.batchChangedRows
     /\ hasUnsavedChanges' = T.hasUnsavedChanges
     /\ filter' = T.filter
     /\ proj' = T.proj
     /\ io' = T.io

\* the state a step leaves: the state S its handler leaves, then the watcher
Commit(S) == Assign(Flush(S))

\* ---------------------------------------------------------------- transport
MaxRetries == 3
InitialDelay == 1000

\* saveData() calls made in one behaviour
MaxSaves == 2

\* apiEndpoint.value: null, a url, and a url no Request can be built from
NoEndpoint == "null"
Endpoint == "https://host/api/data"
CredentialsEndpoint == "https://user:pw@host/api/data"
Endpoints == {NoEndpoint, Endpoint, CredentialsEndpoint}

\* error.value, and the message of the error a call raised: null
NoError == "null"

\* the objects data.value can hold: null, initialData.value, the imported
\* sample document, the document parsed from the response of the k-th call
NoPayload == [from |-> "null", call |-> 0]
InitialPayload == [from |-> "initialData", call |-> 0]
SamplePayload == [from |-> "sampleData", call |-> 0]
ResponsePayload(k) == [from |-> "response", call |-> k]

NoIO ==
  [apiEndpoint |-> NoEndpoint, loading |-> FALSE, error |-> NoError,
   load |-> [phase |-> "idle", attempt |-> 0, delay |-> 0],
   save |-> "idle",
   \* history: what each request of the last loadData() settled with, the
   \* saveData() calls and POST requests made, what the last saveData() raised
   attempts |-> <<>>, saves |-> 0, posts |-> 0, raised |-> NoError,
   \* initialData.value is set, and the object data.value holds
   initialData |-> FALSE, payload |-> NoPayload,
   \* history: the loadData() calls made, the object data.value held when
   \* the last one was called and how that call ended; the payload holds an
   \* applied mutation that the body of no completed save contained; a
   \* mutation was applied after the body of the POST in flight was built
   loads |-> 0, before |-> NoPayload, finished |-> "none",
   unsaved |-> FALSE, sinceBody |-> FALSE]

\* What a request settles with: a Response (its ok flag, its status, its
\* body: a JSON document, a JSON document with an error field, or no JSON), or
\* a rejection (its cause, and the name and the message of the Error).
Response(ok, status, body) == [k |-> "response", ok |-> ok, status |-> status, body |-> body]
Rejection(cause, name, message) ==
  [k |-> "rejection", cause |-> cause, name |-> name, message |-> message]

\* fetch(url, ...) of the production build: a url that includes credentials
\* rejects with a TypeError when the Request is constructed, nothing is sent;
\* otherwise the server answers, or the network fails (TypeError), or the
\* promise rejects with a value that is no TypeError
FetchOutcomes(url) ==
  IF url = CredentialsEndpoint
  THEN {Rejection("request", "TypeError", "Request cannot be constructed from a URL that includes credentials")}
  ELSE {Response(TRUE, 200, "json"), Response(TRUE, 200, "invalid"),
        Response(FALSE, 404, "json"), Response(FALSE, 418, "error"),
        Rejection("network", "TypeError", "Failed to fetch"),
        Rejection("other", "Error", "unexpected")}

\* fetchWithTimeout(url, options, timeout)
FetchWithTimeoutOutcomes(url) ==
  FetchOutcomes(url) \cup {Rejection("timeout", "Error", "Request timeout")}

\* message.includes('Failed to fetch'), message.includes('NetworkError')
IncludesFailedToFetch(message) == message \in {"Failed to fetch"}
IncludesNetworkError(message) == message \in {}

IsNetworkError(lastError) ==
  \/ lastError.name = "TypeError"
  \/ lastError.name = "NetworkError"
  \/ IncludesFailedToFetch(lastError.message)
  \/ IncludesNetworkError(lastError.message)

\* 2^n
RECURSIVE Pow2(_)
Pow2(n) == IF n = 0 THEN 1 ELSE 2 * Pow2(n - 1)

\* the message loadData() builds for a response that is not ok
LoadErrorMessage(response) ==
  IF response.body = "error" THEN "errorData.error"
  ELSE IF response.status = 401 THEN "Authentication required. Please log in and try again."
  ELSE IF response.status = 403 THEN "Access denied. You do not have permission to view this data."
  ELSE IF response.status = 404 THEN "Data not found for this job code. Please verify the job code."
  ELSE IF response.status = 500 THEN "Server error. Please try again later or contact support."
  ELSE IF response.status = 503 THEN "Service temporarily unavailable. Please try again in a few moments."
  ELSE "Failed to load data: status statusText"

\* the message saveData() builds for a response that is not ok
SaveErrorMessage(response) ==
  IF response.body = "error" THEN "errorData.error"
  ELSE IF response.status = 401 THEN "Authentication required. Please log in and try again."
  ELSE IF response.status = 403 THEN "Access denied. You do not have permission to save this data."
  ELSE IF response.status = 400 THEN "Invalid data. Please check your changes and try again."
  ELSE IF response.status = 404 THEN "Job not found. Please verify the job code."
  ELSE IF response.status = 500 THEN "Server error. Please try again later or contact support."
  ELSE IF response.status = 503 THEN "Service temporarily unavailable. Please try again in a few moments."
  ELSE "Failed to save data: status statusText"

\* loadData() up to its try block
LoadDataStart(S) ==
  [S EXCEPT !.io.loading = TRUE, !.io.error = NoError, !.hasUnsavedChanges = FALSE]

\* variant: loadData() without its finally block
LoadDataNoFinally(S) == [S EXCEPT !.io.load = NoIO.load]

\* the finally block of loadData()
LoadDataFinally(S) ==
  [S EXCEPT !.io.loading = FALSE, !.io.load = NoIO.load]

\* the catch block of loadData(), then its finally block
LoadDataCatch(S, message) ==
  LoadDataFinally(
    [S EXCEPT !.io.error =
       IF message = "Request timeout"
       THEN "Request timed out. The server is taking too long to respond. Please try again."
       ELSE message])

\* data.value = payload: a shallowRef notifies when the object is another
\* one; the object data.value holds keeps the edits made in it
SetData(S, payload) ==
  IF S.io.payload = payload THEN S
  ELSE [LoadSample(S) EXCEPT !.io.payload = payload,
                             !.io.unsaved = FALSE, !.io.sinceBody = FALSE]

\* loadData() from the Response retryWithBackoff() returned
LoadDataResponse(S, response) ==
  IF ~response.ok THEN LoadDataCatch(S, LoadErrorMessage(response))
  ELSE IF response.body = "invalid" THEN LoadDataCatch(S, "Unexpected token")
  ELSE LoadDataFinally(SetData(S, ResponsePayload(S.io.loads)))

\* apiClient.get(apiEndpoint.value): one more request of the loadData() in progress
RequestAttempt(S, attempt) ==
  [S EXCEPT !.io.load = [phase |-> "request", attempt |-> attempt, delay |-> 0],
            !.io.attempts = Append(@, "pending")]

\* retryWithBackoff(): the request of this attempt settles with outcome
RetryWithBackoff(S, outcome) ==
  LET attempt == S.io.load.attempt
      T == [S EXCEPT !.io.attempts[Len(S.io.attempts)] =
                       IF outcome.k = "rejection" THEN outcome.cause
                       ELSE IF outcome.ok THEN "ok" ELSE "http"]
  IN IF outcome.k = "response" THEN LoadDataResponse(T, outcome)
     ELSE IF ~IsNetworkError(outcome) THEN LoadDataCatch(T, outcome.message)
     ELSE IF attempt < MaxRetries - 1
     THEN [T EXCEPT !.io.load.phase = "backoff",
                    !.io.load.delay = InitialDelay * Pow2(attempt)]
     ELSE LoadDataCatch(T, outcome.message)

\* !data.value, !apiEndpoint.value
HasData(S) == S.data # 0
HasEndpointAlways(S) == TRUE
HasEndpoint(S) == S.io.apiEndpoint # NoEndpoint

\* saveData() up to the POST request
SaveData(S) ==
  LET T == [S EXCEPT !.io.loading = TRUE, !.io.error = NoError, !.io.saves = @ + 1]
  IN IF ~HasData(T)
     THEN [T EXCEPT !.io.loading = FALSE, !.io.raised = "No data to save"]
     ELSE IF ~HasEndpoint(T)
     THEN [T EXCEPT !.io.loading = FALSE,
                    !.io.raised = "Cannot save: API endpoint not configured"]
     ELSE [T EXCEPT !.io.save = "post", !.io.posts = @ + 1, !.io.raised = NoError]

\* the catch block of saveData(), then its finally block
SaveDataCatch(S, message) ==
  [S EXCEPT !.io.error = NoError, !.io.raised = message,
            !.io.loading = FALSE, !.io.save = "idle"]

\* saveData() from the outcome of the POST request
SaveDataSettled(S, outcome) ==
  IF outcome.k = "rejection" THEN SaveDataCatch(S, outcome.message)
  ELSE IF ~outcome.ok THEN SaveDataCatch(S, SaveErrorMessage(outcome))
  ELSE IF outcome.body = "invalid" THEN SaveDataCatch(S, "Unexpected token")
  ELSE [S EXCEPT !.hasUnsavedChanges = FALSE, !.io.loading = FALSE, !.io.save = "idle"]

\* ----------------------------------------------------------------- actions
Init ==
  /\ data = 0
  /\ rows = [r \in RowIndices |-> <<>>]
  /\ rowMapCache = {}
  /\ cellMapCache = [r \in RowIndices |-> NoMap]
  /\ lastDataRefForMaps = 0
  /\ rowMapDirty = TRUE
  /\ cellMapDirty = TRUE
  /\ changedRowIndices = {}
  /\ isBatching = FALSE
  /\ batchChangedRows = {}
  /\ hasUnsavedChanges = FALSE
  /\ filter = NoFilter
  /\ proj = NoProjection
  /\ io = NoIO
  /\ fmt = NoFormat
  /\ last = NoArgs("init")
  /\ mutations = 0
  /\ batchMutated = {}
  /\ batchMutations = 0
  /\ batchSignals = 0
  /\ grid = NoGrid

\* one call of the mutation API: S is the store it leaves
Mutation(name, r, c, v, S) ==
  /\ mutations < MaxMutations
  /\ Commit(S)
  /\ last' = [Op(name, r, c, v) EXCEPT !.applied = S.applied, !.sig = S.signals]
  /\ mutations' = mutations + 1
  /\ batchMutated' = IF isBatching /\ S.applied THEN batchMutated \cup {r}
                     ELSE batchMutated
  /\ batchMutations' = IF isBatching /\ S.applied THEN batchMutations + 1
                       ELSE batchMutations
  /\ batchSignals' = IF isBatching THEN batchSignals + S.signals ELSE batchSignals
  /\ UNCHANGED <<grid, fmt>>

loadData ==
  /\ data = 0
  /\ io.apiEndpoint = NoEndpoint
  /\ io.load.phase = "idle"
  /\ Commit(LoadDataFinally(SetData(LoadDataStart(Store), SamplePayload)))
  /\ last' = NoArgs("loadData")
  /\ UNCHANGED <<mutations, batchMutated, batchMutations, batchSignals, grid, fmt>>

setCellValue ==
  \E rc \in CallCells, vs \in InputSets :
    Mutation("setCellValue", rc[1], rc[2], vs[1],
             SetCellValue(Store, rc[1], rc[2], vs[1], vs[2]))

markResultCellFinal ==
  \E rc \in CallCells :
    Mutation("markResultCellFinal", rc[1], rc[2], Undef,
             MarkResultCellFinal(Store, rc[1], rc[2]))

clearResultCell ==
  \E rc \in CallCells :
    Mutation("clearResultCell", rc[1], rc[2], Undef,
             ClearResultCell(Store, rc[1], rc[2]))

setManualCorrection ==
  \E rc \in CallCells, bm \in InputCorrections :
    Mutation("setManualCorrection", rc[1], rc[2], Undef,
             SetManualCorrection(Store, rc[1], rc[2], bm[1], bm[2]))

startBatch ==
  /\ Commit(StartBatch(Store))
  /\ last' = NoArgs("startBatch")
  /\ batchMutated' = {}
  /\ batchMutations' = 0
  /\ batchSignals' = 0
  /\ UNCHANGED <<mutations, grid, fmt>>

endBatch ==
  LET S == EndBatch(Store)
  IN /\ Commit(S)
     /\ last' = [NoArgs("endBatch") EXCEPT !.sig = S.signals,
                                           !.n = batchMutations,
                                           !.batchSig = batchSignals + S.signals]
     /\ batchMutated' = {}
     /\ batchMutations' = 0
     /\ batchSignals' = 0
     /\ UNCHANGED <<mutations, grid, fmt>>

clearChangedRows ==
  /\ Commit(ClearChangedRows(Store))
  /\ last' = NoArgs("clearChangedRows")
  /\ UNCHANGED <<mutations, batchMutated, batchMutations, batchSignals, grid, fmt>>

\* a read of a dynamic cell through getCellValueByIndex: evaluates rowMap, then cellMap
getCellValueByIndex ==
  \E r \in RowIndices, c \in DynCols :
    /\ Commit(GetCellValueByIndex(Store, r, c).st)
    /\ UNCHANGED <<historyVars, grid, fmt>>

\* a read of store.cellMap alone (getCellValue, exported by the store)
getCellValue ==
  \E r \in RowIndices, c \in DynCols :
    /\ data # 0
    /\ Commit(GetCellValue(Store, r, c).st)
    /\ UNCHANGED <<historyVars, grid, fmt>>

Next ==
  \/ loadData
  \/ setCellValue
  \/ markResultCellFinal
  \/ clearResultCell
  \/ setManualCorrection
  \/ startBatch
  \/ endBatch
  \/ clearChangedRows
  \/ getCellValueByIndex
  \/ getCellValue

Spec == Init /\ [][Next]_vars

\* ------------------------------------------- calls on rows that may not exist
\* The mutation API called with the rowIndex of a row of the payload or with
\* one that no row has, before and after the load, Idle and Batching.
MissingRow == 3
AnyRowCells == {<<1, 6>>, <<MissingRow, 6>>}

setCellValueAnyRow ==
  \E rc \in AnyRowCells :
    Mutation("setCellValue", rc[1], rc[2], Num(1),
             SetCellValue(Store, rc[1], rc[2], Num(1), 0))

markResultCellFinalAnyRow ==
  \E rc \in AnyRowCells :
    Mutation("markResultCellFinal", rc[1], rc[2], Undef,
             MarkResultCellFinal(Store, rc[1], rc[2]))

clearResultCellAnyRow ==
  \E rc \in AnyRowCells :
    Mutation("clearResultCell", rc[1], rc[2], Undef,
             ClearResultCell(Store, rc[1], rc[2]))

setManualCorrectionAnyRow ==
  \E rc \in AnyRowCells :
    Mutation("setManualCorrection", rc[1], rc[2], Undef,
             SetManualCorrection(Store, rc[1], rc[2], Num(1), Undef))

NextAnyRow ==
  \/ loadData
  \/ setCellValueAnyRow
  \/ markResultCellFinalAnyRow
  \/ clearResultCellAnyRow
  \/ setManualCorrectionAnyRow
  \/ startBatch
  \/ endBatch

SpecAnyRow == Init /\ [][NextAnyRow]_vars

\* ------------------------------------------------------------ grid actions
\* The handlers of useGridActions.  A handler runs in steps separated by the
\* awaits of processInChunks: the step that starts it extracts the cells,
\* opens the batch and processes the first cell; every later step processes
\* the next cell; the last step closes the batch.  Between two steps the
\* scheduler may run a render (a read) or a watcher (clearChangedRows).
MaxGridActions == 3
\* the chunkSize the handlers pass to processInChunks is 100; it is scaled down
\* to the selections of the model so that a handler crosses a chunk boundary
GridChunkSize == 1

\* store.findResultColumn(serviceItemIndex, analyteIndex) of the rawdata column
ResultColumn == 6

\* the row selections of the range; the range has one column, the clicked one
SelectedRows == {<<1>>, <<2>>, <<1, 2>>}
\* the value entered in the correction dialog
BaselineValue == Num(1)
MultiplierValue == Num(2)

HasValue(v) == v # Null /\ v # EmptyStr

\* isCellFinal(rowIndex, columnIndex): [st |-> the store after the read, val |-> the result]
IsCellFinal(S, r, c) ==
  IF S.data = 0 THEN [st |-> S, val |-> FALSE]
  ELSE LET S1 == RowMapEval(S)
       IN IF r \notin RowIndices THEN [st |-> S1, val |-> FALSE]
          ELSE LET S2 == CellMapEval(S1)
                   i == IF S2.cellMapCache[r].has THEN S2.cellMapCache[r].m[c] ELSE 0
               IN [st |-> S2, val |-> (i # 0 /\ S2.rows[r][i].isFinal)]

\* variant: validateColumnOperation without the test of the column type
ValidateColumnOperationAnyType(c, requiredType) == c >= STATIC_COLUMN_COUNT

ValidateColumnOperation(c, requiredType) ==
  c >= STATIC_COLUMN_COUNT /\ ColumnType(c) = requiredType

\* extractCellsFromRanges: the rows of the range in order, each with the
\* range's column, if the column passes the filter
ExtractCellsFromRanges(selRows, c, resultOnly) ==
  IF c < STATIC_COLUMN_COUNT \/ (resultOnly /\ ColumnType(c) # "result") THEN <<>>
  ELSE [k \in 1..Len(selRows) |-> <<selRows[k], c>>]

\* the processors passed to processInChunks; cell is <<rowIndex, columnIndex>>
\* F is what isCellFinal returned for the result cell, G what
\* getCellValueByIndex returned for the cell of the item
CopySourceValue(G, cell) ==
  IF HasValue(G.val)
  THEN SetCellValue(G.st, cell[1], ResultColumn, G.val, cell[2])
  ELSE G.st

CopyUnlessFinal(F, cell) ==
  IF F.val THEN F.st
  ELSE CopySourceValue(GetCellValueByIndex(F.st, cell[1], cell[2]), cell)

CopyToResultItem(S, cell) ==
  CopyUnlessFinal(IsCellFinal(S, cell[1], ResultColumn), cell)

MarkFinalValue(G, cell) ==
  IF HasValue(G.val) THEN MarkResultCellFinal(G.st, cell[1], cell[2]) ELSE G.st

MarkFinalItem(S, cell) ==
  MarkFinalValue(GetCellValueByIndex(S, cell[1], cell[2]), cell)

ClearResultsValue(G, cell) ==
  IF HasValue(G.val) THEN ClearResultCell(G.st, cell[1], cell[2]) ELSE G.st

ClearResultsItem(S, cell) ==
  ClearResultsValue(GetCellValueByIndex(S, cell[1], cell[2]), cell)

CorrectUnlessFinal(F, cell, b, m) ==
  IF ~F.val THEN SetManualCorrection(F.st, cell[1], cell[2], b, m) ELSE F.st

CorrectionValue(G, cell, b, m) ==
  IF ~HasValue(G.val) THEN G.st
  ELSE CorrectUnlessFinal(IsCellFinal(G.st, cell[1], cell[2]), cell, b, m)

CorrectionItem(S, cell, b, m) ==
  CorrectionValue(GetCellValueByIndex(S, cell[1], cell[2]), cell, b, m)

Processor(S, kind, cell, arg) ==
  CASE kind = "copyToResult" -> CopyToResultItem(S, cell)
    [] kind = "markFinal" -> MarkFinalItem(S, cell)
    [] kind = "clearResults" -> ClearResultsItem(S, cell)
    [] kind = "applyBaseline" -> CorrectionItem(S, cell, arg, Undef)
    [] kind = "applyMultiplier" -> CorrectionItem(S, cell, Undef, arg)

\* variant: the items are taken from the end of the list
NextItemReversed(items, done) == items[Len(items) - done]

\* processInChunks: the item handed to the processor after done items
NextItem(items, done) == items[done + 1]

\* a handler of the grid actions up to its await of withLoadingOverlay: it
\* has validated its target and raises needsFormatterRefresh.  Its operation
\* starts after the overlay has rendered; an update of the grid that completes
\* during the wait lowers the flag again.
SetNeedsFormatterRefresh(S, v) ==
  IF S.proj.needsFormatterRefresh = v THEN S
  ELSE [S EXCEPT !.proj.needsFormatterRefresh = v,
                 !.proj.dirty = @ \/ S.proj.tracked]

handlerEntry ==
  /\ grid.kind = "none"
  /\ ~grid.entered
  /\ grid.started < MaxGridActions
  /\ data # 0
  /\ Commit(SetNeedsFormatterRefresh(Store, TRUE))
  /\ grid' = [grid EXCEPT !.entered = TRUE]
  /\ UNCHANGED <<historyVars, fmt>>

\* the operation of an entered handler, from the extracted cells to the first
\* await of processInChunks
\* P is the store the processor of the first item leaves
GridStarted(P, kind, cells, arg) ==
  /\ Commit(P)
  /\ grid' = [grid EXCEPT !.kind = kind, !.cells = cells, !.done = 1,
                          !.shouldBatch = Len(cells) > 1, !.arg = arg,
                          !.started = @ + 1, !.entered = FALSE,
                          !.signals = P.signals,
                          !.processed = <<NextItem(cells, 0)>>,
                          !.yielded = FALSE, !.failed = 0]

GridBegin(kind, cells, arg) ==
  /\ grid.kind = "none"
  /\ grid.entered
  /\ grid.started < MaxGridActions
  /\ data # 0
  /\ cells # <<>>
  /\ GridStarted(Processor(IF Len(cells) > 1 THEN StartBatch(Store) ELSE Store,
                           kind, NextItem(cells, 0), arg),
                 kind, cells, arg)
  /\ UNCHANGED <<historyVars, fmt>>

handleCopyToResultCell ==
  \E selRows \in SelectedRows, c \in DynCols :
    LET cellsToProcess == ExtractCellsFromRanges(selRows, c, FALSE)
        maxColumnIndex == c
    IN /\ ColumnType(maxColumnIndex) # "result"
       /\ GridBegin("copyToResult", cellsToProcess, Undef)

handleMarkFinalCell ==
  \E selRows \in SelectedRows, c \in DynCols :
    /\ ValidateColumnOperation(c, "result")
    /\ GridBegin("markFinal", ExtractCellsFromRanges(selRows, c, TRUE), Undef)

handleClearResultsCell ==
  \E selRows \in SelectedRows, c \in DynCols :
    /\ ValidateColumnOperation(c, "result")
    /\ GridBegin("clearResults", ExtractCellsFromRanges(selRows, c, TRUE), Undef)

\* opens the correction dialog on the clicked column
handleManualCorrectionCell ==
  \E c \in DynCols :
    /\ grid.kind = "none"
    /\ grid.dialog = 0
    /\ data # 0
    /\ ColumnType(c) = "result"
    /\ grid' = [grid EXCEPT !.dialog = c]
    /\ UNCHANGED <<storeVars, historyVars, fmt>>

applyBaselineCorrection ==
  \E selRows \in SelectedRows :
    /\ grid.dialog # 0
    /\ ColumnType(grid.dialog) = "result"
    /\ GridBegin("applyBaseline",
                 ExtractCellsFromRanges(selRows, grid.dialog, TRUE), BaselineValue)

applyMultiplier ==
  \E selRows \in SelectedRows :
    /\ grid.dialog # 0
    /\ ColumnType(grid.dialog) = "result"
    /\ GridBegin("applyMultiplier",
                 ExtractCellsFromRanges(selRows, grid.dialog, TRUE), MultiplierValue)

\* P is the store the processor of item leaves
ItemProcessed(P, item) ==
  /\ Commit(P)
  /\ grid' = [grid EXCEPT !.done = @ + 1,
                          !.signals = @ + P.signals,
                          !.processed = Append(@, item),
                          !.yielded = FALSE]

\* processInChunks resumes after await processor(item, index): the next item
processInChunks ==
  /\ grid.kind # "none"
  /\ grid.done < Len(grid.cells)
  /\ grid.done % GridChunkSize # 0 \/ grid.yielded
  /\ ItemProcessed(Processor(Store, grid.kind, NextItem(grid.cells, grid.done),
                             grid.arg),
                   NextItem(grid.cells, grid.done))
  /\ UNCHANGED <<historyVars, fmt>>

\* processInChunks at the end of a chunk that is not the last: it yields to
\* the browser with setTimeout(0) and does nothing else
chunkBoundary ==
  /\ grid.kind # "none"
  /\ grid.done < Len(grid.cells)
  /\ grid.done % GridChunkSize = 0
  /\ ~grid.yielded
  /\ grid' = [grid EXCEPT !.yielded = TRUE]
  /\ UNCHANGED <<storeVars, historyVars, fmt>>

\* after processInChunks: endBatch() of a batched handler, and the correction
\* handlers close the dialog
gridActionEnd ==
  /\ grid.kind # "none"
  /\ grid.done = Len(grid.cells)
  /\ LET E == IF grid.shouldBatch THEN EndBatch(Store) ELSE Store
     IN /\ Commit(E)
        /\ grid' = [NoGrid EXCEPT
                      !.started = grid.started,
                      !.dialog = IF grid.kind \in {"applyBaseline", "applyMultiplier"}
                                 THEN 0 ELSE grid.dialog,
                      !.signals = grid.signals + E.signals,
                      !.processed = grid.processed,
                      !.invoked = grid.invoked,
                      !.bulk = grid.bulk]
  /\ UNCHANGED <<historyVars, fmt>>

NextGrid ==
  \/ loadData
  \/ handlerEntry
  \/ handleCopyToResultCell
  \/ handleMarkFinalCell
  \/ handleClearResultsCell
  \/ handleManualCorrectionCell
  \/ applyBaselineCorrection
  \/ applyMultiplier
  \/ processInChunks
  \/ chunkBoundary
  \/ gridActionEnd
  \/ getCellValueByIndex
  \/ clearChangedRows

SpecGrid == Init /\ [][NextGrid]_vars

\* ----------------------------------------------------------- filter actions
FilterStep(F) ==
  /\ filter.filterChangeCounter < MaxFilterChanges
  /\ Commit(FilterWatchers([Store EXCEPT !.filter = F], filter))
  /\ UNCHANGED <<historyVars, grid, fmt>>

\* the debounced setters, when their timer fires with the latest argument
debouncedSetServiceItem ==
  \E siIndex \in ServiceItemInputs :
    FilterStep(CountFilterChange(SetFilterRef(filter, "selectedServiceItemIndex", siIndex)))

debouncedSetReportableOnly ==
  \E enabled \in BOOLEAN :
    FilterStep(CountFilterChange(SetFilterRef(filter, "showReportableOnly", enabled)))

debouncedSetViewMode ==
  \E mode \in ViewModes :
    FilterStep(CountFilterChange(SetFilterRef(filter, "viewMode", mode)))

\* setServiceItemFilter, setReportableOnlyFilter, setViewMode: raise the flag
\* and arm the debounced setter
setFilter ==
  /\ ~filter.isFiltering
  /\ Commit([Store EXCEPT !.filter.isFiltering = TRUE])
  /\ UNCHANGED <<historyVars, grid, fmt>>

clearAllFilters ==
  FilterStep(CountFilterChange(
    SetFilterRef(SetFilterRef(SetFilterRef([filter EXCEPT !.isFiltering = TRUE],
      "selectedServiceItemIndex", 0), "showReportableOnly", TRUE), "viewMode", "qc")))

clearServiceItemFilter ==
  FilterStep(CountFilterChange(
    SetFilterRef([filter EXCEPT !.isFiltering = TRUE], "selectedServiceItemIndex", 0)))

clearReportableOnlyFilter ==
  FilterStep(CountFilterChange(
    SetFilterRef([filter EXCEPT !.isFiltering = TRUE], "showReportableOnly", TRUE)))

\* a read of store.filteredColumns
filteredColumns ==
  LET S == IF filter.dirty THEN FilteredColumns(Store) ELSE Store
      F == S.filter
  IN /\ filter.dirty \/ data # 0
     /\ Commit([S EXCEPT !.filter.lastEval =
                  IF data = 0 THEN NoFilter.lastEval
                  ELSE [key |-> CacheKey(F), id |-> F.value.id,
                        hit |-> IF filter.dirty
                                THEN F.value.id = filter.filteredColumnsCache.id
                                     /\ data = filter.lastDataRefForColumns
                                ELSE filter.lastEval.hit],
                          !.filter.prevEval =
                  IF data = 0 THEN NoFilter.prevEval
                  ELSE IF filter.lastEval.key \notin {<<>>, CacheKey(F)}
                       THEN [key |-> filter.lastEval.key, id |-> filter.lastEval.id]
                       ELSE filter.prevEval])
     /\ UNCHANGED <<historyVars, grid, fmt>>

NextFilter ==
  \/ loadData
  \/ setFilter
  \/ debouncedSetServiceItem
  \/ debouncedSetReportableOnly
  \/ debouncedSetViewMode
  \/ clearAllFilters
  \/ clearServiceItemFilter
  \/ clearReportableOnlyFilter
  \/ filteredColumns
  \/ clearResultCell

SpecFilter == Init /\ [][NextFilter]_vars

\* ----------------------------------------------------------- cell formatter
\* getResultCellFormattingClass reads the rows of store.data and the analyte of
\* the column.  fmt holds the dataset it is applied to: per row the control
\* type, the sample name (as its parts, so that name + '-R' is an append), the
\* traveler number, the sequence number and the value in the result column;
\* the limits of the analyte of the result column; and the last cell
\* classified with its class.  Values are integers: for the integers used here
\* the double |a - b| / d * 100 compares to 10 and 20 as the exact quotient.
VARIANCE_THRESHOLDS ==
  [DUP |-> [high |-> 20, medium |-> 10],
   PRD |-> [high |-> 20, medium |-> 10],
   CRD |-> [high |-> 20, medium |-> 10]]

FormatRow(controlType, sampleName, travelerNo, seqNo) ==
  [controlType |-> controlType, sampleName |-> sampleName,
   travelerNo |-> travelerNo, seqNo |-> seqNo, value |-> Null]

\* the datasets: an original with both kinds of duplicate, two originals of one
\* duplicate, an ORGCRD with two CRD rows, an ORGPRD with a PRD row and a PRD
\* row of another position, and a CRM row among plain samples
DupRows ==
  << FormatRow("ORIGINAL", <<"S">>, 1, 1), FormatRow("REJECTDUP", <<"S", "-R">>, 1, 2),
     FormatRow("PULPDUP", <<"S", "-X">>, 1, 3) >>
OriginalRows ==
  << FormatRow("ORIGINAL", <<"S">>, 1, 1), FormatRow("ORIGINAL", <<"S">>, 1, 2),
     FormatRow("REJECTDUP", <<"S", "-R">>, 1, 3) >>
CrdRows ==
  << FormatRow("ORGCRD", <<"C">>, 1, 1), FormatRow("CRD", <<"D">>, 1, 2),
     FormatRow("CRD", <<"E">>, 1, 2) >>
PrdRows ==
  << FormatRow("ORGPRD", <<"P">>, 1, 1), FormatRow("PRD", <<"Q">>, 1, 2),
     FormatRow("PRD", <<"R">>, 1, 3) >>
CrmRows ==
  << FormatRow("CRM", <<"M">>, 1, 1), FormatRow("SAMPLE", <<"S">>, 1, 2),
     FormatRow("SAMPLE", <<"T">>, 1, 3) >>

FormatValues == {Null, Undef, EmptyStr, TextStr, Num(0), Num(8), Num(9), Num(10), Num(13)}
FormatLimits == {EmptyStr, TextStr, Str(9), Str(10)}

WithValues(template, v1, v2, v3) ==
  [i \in DOMAIN template |->
     [template[i] EXCEPT !.value = IF i = 1 THEN v1 ELSE IF i = 2 THEN v2 ELSE v3]]

FormatDatasets ==
  {[NoFormat EXCEPT !.loaded = TRUE, !.rows = WithValues(t, v[1], v[2], v[3])] :
     t \in {DupRows, OriginalRows, CrdRows, PrdRows},
     v \in FormatValues \X FormatValues \X FormatValues}
  \cup
  {[NoFormat EXCEPT !.loaded = TRUE, !.rows = WithValues(CrmRows, v, Null, Null),
                    !.lowerLimit = l, !.upperLimit = u] :
     v \in FormatValues, l \in FormatLimits, u \in FormatLimits}

\* datasets of two rows for the matching rules: every pairing of control type
\* (some in lower case), sample name (also empty), traveler and position
MatchTypes ==
  {"ORIGINAL", "original", "REJECTDUP", "PULPDUP", "pulpdup", "ORGCRD", "CRD", "crd",
   "ORGPRD", "PRD", "SAMPLE"}
MatchNames == {<<>>, <<"S">>, <<"S", "-R">>, <<"S", "-X">>, <<"-R">>}

MatchDatasets ==
  {[NoFormat EXCEPT !.loaded = TRUE,
      !.rows = << [FormatRow(t1, n1, 1, s1) EXCEPT !.value = Num(10)],
                  [FormatRow(t2, n2, tr2, s2) EXCEPT !.value = Num(8)] >>] :
     t1 \in MatchTypes, n1 \in MatchNames, s1 \in {1, 2},
     t2 \in MatchTypes, n2 \in MatchNames, tr2 \in {1, 2}, s2 \in {1, 2, 3}}

\* a double that is a quotient n / d of integers, n >= 0: NaN when n = d = 0,
\* Infinity when d = 0 < n, not positive when d < 0
Ratio(n, d) == [n |-> n, d |-> d]
Abs(x) == IF x < 0 THEN -x ELSE x

\* v > w, for w >= 0 or Infinity
RatioGt(v, w) ==
  IF v.d = 0 THEN v.n > 0 /\ w.d # 0
  ELSE IF v.d < 0 THEN FALSE
  ELSE IF w.d = 0 THEN FALSE
  ELSE v.n * w.d > w.n * v.d

\* v * 100 > threshold, for v >= 0 or Infinity
ExceedsThreshold(v, threshold) ==
  IF v.d = 0 THEN TRUE ELSE 100 * v.n > threshold * v.d

\* Math.abs(numOriginalValue - numDuplicateValue) / numOriginalValue (* 100),
\* on an ORIGINAL, ORGCRD or ORGPRD row
OriginalVariance(numOriginalValue, numDuplicateValue) ==
  Ratio(Abs(numOriginalValue - numDuplicateValue), numOriginalValue)

\* Math.abs(numDuplicateValue - numOriginalValue) / numOriginalValue (* 100),
\* on a REJECTDUP, PULPDUP, CRD or PRD row
DuplicateVariance(numDuplicateValue, numOriginalValue) ==
  Ratio(Abs(numDuplicateValue - numOriginalValue), numOriginalValue)

OriginalTypes == {"ORIGINAL", "ORGCRD", "ORGPRD"}
DuplicateTypes == {"REJECTDUP", "PULPDUP", "CRD", "PRD"}

\* (controlType || '').toString().toUpperCase(), on the spellings of the datasets
ToUpperCase(type) ==
  CASE type = "original" -> "ORIGINAL"
    [] type = "pulpdup" -> "PULPDUP"
    [] type = "crd" -> "CRD"
    [] OTHER -> type

\* matchingRows of the row at index i, as the set of their indices
MatchingRows(D, i) ==
  LET row == D.rows[i]
      type == ToUpperCase(row.controlType)
      name == row.sampleName
      originalSampleName ==
        IF name # <<>> /\ name[Len(name)] \in {"-R", "-X"}
        THEN SubSeq(name, 1, Len(name) - 1) ELSE <<>>
      matches(r) ==
        CASE type = "ORIGINAL" ->
               /\ ToUpperCase(r.controlType) \in {"REJECTDUP", "PULPDUP"}
               /\ r.travelerNo = row.travelerNo
               /\ r.sampleName \in {name \o <<"-R">>, name \o <<"-X">>}
          [] type = "ORGCRD" ->
               ToUpperCase(r.controlType) = "CRD" /\ r.travelerNo = row.travelerNo /\ r.seqNo = row.seqNo + 1
          [] type = "ORGPRD" ->
               ToUpperCase(r.controlType) = "PRD" /\ r.travelerNo = row.travelerNo /\ r.seqNo = row.seqNo + 1
          [] type \in {"REJECTDUP", "PULPDUP"} ->
               /\ originalSampleName # <<>>
               /\ ToUpperCase(r.controlType) = "ORIGINAL" /\ r.travelerNo = row.travelerNo
               /\ r.sampleName = originalSampleName
          [] type = "CRD" ->
               ToUpperCase(r.controlType) = "ORGCRD" /\ r.travelerNo = row.travelerNo /\ r.seqNo = row.seqNo - 1
          [] type = "PRD" ->
               ToUpperCase(r.controlType) = "ORGPRD" /\ r.travelerNo = row.travelerNo /\ r.seqNo = row.seqNo - 1
          [] OTHER -> FALSE
  IN {j \in DOMAIN D.rows : matches(D.rows[j])}

\* the sibling value is skipped: null, '', undefined or not a number
SkippedValue(v) ==
  v.k \in {"null", "undef"} \/ v = EmptyStr \/ ParseFloat(v).k = "nan"

\* the loop over matchingRows, in row order, from index j on
RECURSIVE HighestVariance(_, _, _, _)
HighestVariance(D, i, j, highest) ==
  IF j > Len(D.rows) THEN highest
  ELSE IF j \notin MatchingRows(D, i) \/ SkippedValue(D.rows[j].value)
       THEN HighestVariance(D, i, j + 1, highest)
  ELSE LET this == ParseFloat(D.rows[i].value).n
           sibling == ParseFloat(D.rows[j].value).n
           variance == IF ToUpperCase(D.rows[i].controlType) \in OriginalTypes
                       THEN OriginalVariance(this, sibling)
                       ELSE DuplicateVariance(this, sibling)
       IN HighestVariance(D, i, j + 1,
                          IF RatioGt(variance, highest) THEN variance ELSE highest)

Family(type) ==
  IF type \in {"ORIGINAL", "REJECTDUP", "PULPDUP"} THEN "DUP"
  ELSE IF type \in {"ORGPRD", "PRD"} THEN "PRD" ELSE "CRD"

VarianceClass(family, highestVariance) ==
  LET thresholds == VARIANCE_THRESHOLDS[family]
      high == IF family = "DUP" THEN "cell-variance-dup-high"
              ELSE IF family = "PRD" THEN "cell-variance-prd-high"
              ELSE "cell-variance-crd-high"
      medium == IF family = "DUP" THEN "cell-variance-dup-medium"
                ELSE IF family = "PRD" THEN "cell-variance-prd-medium"
                ELSE "cell-variance-crd-medium"
  IN IF ExceedsThreshold(highestVariance, thresholds.high) THEN high
     ELSE IF ExceedsThreshold(highestVariance, thresholds.medium) THEN medium
     ELSE ""

\* a CRM branch that reports within-limit as soon as no present limit is exceeded
LimitClassOneLimitEnough(D, cellValue) ==
  LET numValue == ParseFloat(cellValue)
      lowerLimit == ParseFloat(D.lowerLimit)
      upperLimit == ParseFloat(D.upperLimit)
  IN IF cellValue = Null \/ cellValue = EmptyStr \/ numValue.k = "nan" THEN ""
     ELSE IF lowerLimit.k # "nan" /\ numValue.n < lowerLimit.n THEN "cell-below-limit"
     ELSE IF upperLimit.k # "nan" /\ numValue.n > upperLimit.n THEN "cell-above-limit"
     ELSE IF lowerLimit.k # "nan" \/ upperLimit.k # "nan" THEN "cell-within-limit"
     ELSE ""

\* the CRM branch; the analyte of the column exists
LimitClass(D, cellValue) ==
  LET numValue == ParseFloat(cellValue)
      lowerLimit == IF D.lowerLimit # EmptyStr THEN ParseFloat(D.lowerLimit) ELSE NaN
      upperLimit == IF D.upperLimit # EmptyStr THEN ParseFloat(D.upperLimit) ELSE NaN
  IN IF cellValue = Null \/ cellValue = EmptyStr THEN ""
     ELSE IF numValue.k = "nan" THEN ""
     ELSE IF lowerLimit.k # "nan" /\ numValue.n < lowerLimit.n THEN "cell-below-limit"
     ELSE IF upperLimit.k # "nan" /\ numValue.n > upperLimit.n THEN "cell-above-limit"
     ELSE IF /\ lowerLimit.k # "nan" /\ upperLimit.k # "nan"
             /\ numValue.n >= lowerLimit.n /\ numValue.n <= upperLimit.n
          THEN "cell-within-limit"
     ELSE ""

\* getResultCellFormattingClass(column, cellValue, rowIndex); rowIndex 0
\* stands for undefined
GetResultCellFormattingClass(D, c, cellValue, rowIndex) ==
  IF ColumnType(c) # "result" THEN ""
  ELSE IF rowIndex = 0 \/ ~D.loaded THEN ""
  ELSE IF rowIndex \notin DOMAIN D.rows THEN ""
  ELSE LET controlType == ToUpperCase(D.rows[rowIndex].controlType)
       IN IF controlType = "CRM" THEN LimitClass(D, cellValue)
          ELSE IF controlType \in OriginalTypes \cup DuplicateTypes
               THEN IF ParseFloat(cellValue).k = "nan" THEN ""
                    ELSE VarianceClass(Family(controlType),
                                       HighestVariance(D, rowIndex, 1, Ratio(0, 1)))
          ELSE ""

\* the dataset arrives
loadFormatData ==
  /\ ~fmt.loaded
  /\ fmt' \in FormatDatasets \cup MatchDatasets
  /\ UNCHANGED <<storeVars, historyVars, grid>>

\* the formatter of a cell of the grid: cellValue is the value of the row in
\* the column
getResultCellFormattingClass ==
  \E rowIndex \in 0 .. 3, c \in DynCols :
    LET cellValue == IF rowIndex \in DOMAIN fmt.rows /\ c = ResultColumn
                     THEN fmt.rows[rowIndex].value ELSE Null
    IN /\ fmt' = [fmt EXCEPT !.row = rowIndex, !.column = c,
                             !.cls = GetResultCellFormattingClass(fmt, c, cellValue, rowIndex)]
       /\ UNCHANGED <<storeVars, historyVars, grid>>

NextFormat ==
  \/ loadFormatData
  \/ getResultCellFormattingClass

SpecFormat == Init /\ [][NextFormat]_vars

\* -------------------------------------------------------------- properties
HasCell(vals, c) == \E i \in 1..Len(vals) : vals[i].columnIndex = c

\* the cell has no value: absent, or stored with null or the empty string
NoValue(vals, c) ==
  \A i \in 1..Len(vals) :
    vals[i].columnIndex = c => vals[i].value \in {Null, EmptyStr}

\* the step is a call of the mutation API
MutationStep == mutations' = mutations + 1

\* C1: on a loaded dataset, whatever mutation, batch and clearChangedRows calls
\* came before, a read of cellMap has an entry for column c of row r exactly
\* when the row's values list holds a CellValue for c, and the entry is a
\* CellValue of that column.
C1_CellMapCoherent ==
  data # 0 =>
    LET S == CellMapEval(RowMapEval(Store))
    IN \A r \in RowIndices, c \in DynCols :
         LET i == S.cellMapCache[r].m[c]
         IN /\ (i # 0) <=> HasCell(S.rows[r], c)
            /\ i # 0 => S.rows[r][i].columnIndex = c

\* C2: after setCellValue(r, c, v) called while the store is Idle,
\* getCellValueByIndex(r, c) returns v.
C2_ReadAfterWriteIdle ==
  (last.op = "setCellValue" /\ last.applied /\ ~last.batching) =>
    GetCellValueByIndex(Store, last.r, last.c).val = last.v

\* C3: while Batching, a read of (r, c) after a mutation of (r, c) returns the
\* mutated state: the value set, null and no entry after a clear, the cell
\* marked final, the corrected cell.
C3_ReadsInBatchSeeMutations ==
  (isBatching /\ last.op \in MutationOps /\ last.applied /\ last.batching) =>
    LET G == GetCellValueByIndex(Store, last.r, last.c)
        i == G.st.cellMapCache[last.r].m[last.c]
    IN /\ last.op = "setCellValue" => G.val = last.v
       /\ last.op = "clearResultCell" => G.val = Null /\ i = 0
       /\ last.op = "markResultCellFinal" => i # 0 /\ G.st.rows[last.r][i].isFinal
       /\ last.op = "setManualCorrection" => i # 0

\* C4: a row's values list holds at most one CellValue per columnIndex.
C4_UniqueCells ==
  \A r \in RowIndices :
    \A i, j \in 1..Len(rows[r]) :
      rows[r][i].columnIndex = rows[r][j].columnIndex => i = j

\* C5: the mutations made between startBatch() and endBatch() issue no
\* invalidation signal and endBatch() issues exactly one, however many
\* mutations the batch held; a mutation applied while Idle issues exactly one.
C5_OneSignalPerBatch ==
  /\ isBatching => batchSignals = 0
  /\ (last.op \in MutationOps /\ last.batching) => last.sig = 0
  /\ (last.op = "endBatch" /\ last.batching) => last.sig = 1 /\ last.batchSig = 1
  /\ (last.op \in MutationOps /\ last.applied /\ ~last.batching) => last.sig = 1

\* a batch of two or more mutations has ended with its single signal
C5_Witness ==
  last.op = "endBatch" /\ last.batching /\ last.n >= 2 /\ last.batchSig = 1

\* C6: while Batching a mutation of row r leaves changedRowIndices unchanged
\* and records r in the pending set; endBatch() makes changedRowIndices its
\* previous content united with the rows mutated since startBatch() and
\* empties the pending set.
C6_ChangedRowTracking ==
  [][/\ (MutationStep /\ isBatching /\ last'.applied) =>
          /\ changedRowIndices' = changedRowIndices
          /\ last'.r \in batchChangedRows'
     /\ (last'.op = "endBatch" /\ isBatching) =>
          /\ changedRowIndices' = changedRowIndices \cup batchMutated
          /\ batchChangedRows' = {}]_vars

\* a batch that mutated both rows, one of them twice, has been merged
C6_Witness ==
  /\ last.op = "endBatch" /\ last.batching /\ last.n = 3
  /\ changedRowIndices = RowIndices /\ batchChangedRows = {}

\* C7: after setManualCorrection the cell's value is (o + b) * m, with o the
\* original value, b the stored baseline (0 if none) and m the stored
\* multiplier (1 if none).  Stated for a cell that is the only one of its
\* column in the row.
C7_CorrectionCombinesFactors ==
  (last.op = "setManualCorrection" /\ last.applied) =>
    \A i \in 1..Len(rows[last.r]) :
      LET cell == rows[last.r][i]
          b == IF cell.baselineCorrection = Undef THEN 0 ELSE cell.baselineCorrection.n
          m == IF cell.multiplier = Undef THEN 1 ELSE cell.multiplier.n
      IN (/\ cell.columnIndex = last.c
          /\ cell.originalValue # Undef
          /\ \A j \in 1..Len(rows[last.r]) :
               rows[last.r][j].columnIndex = last.c => j = i)
         => cell.value = Num((cell.originalValue.n + b) * m)

\* the row holds a CellValue of column c with isFinal = true
FinalCell(vals, c) ==
  \E i \in 1..Len(vals) : vals[i].columnIndex = c /\ vals[i].isFinal

LockedGridActions == {"copyToResult", "clearResults", "applyBaseline", "applyMultiplier"}

\* the step is a step of one of the four grid actions
LockedGridStep ==
  /\ grid' # grid
  /\ (IF grid.kind = "none" THEN grid'.kind ELSE grid.kind) \in LockedGridActions

\* C8: a step of Copy to Result, Clear Results, Apply Baseline Correction or
\* Apply Multiplier leaves the value that getCellValueByIndex returns for a
\* result cell with isFinal = true as it was.
C8_FinalCellsLocked ==
  [][LockedGridStep =>
       \A r \in RowIndices :
         FinalCell(rows[r], ResultColumn) =>
           GetCellValueByIndex(Store', r, ResultColumn).val
             = GetCellValueByIndex(Store, r, ResultColumn).val]_vars

\* C9: once a cell has an originalValue, no call changes it for as long as the
\* cell is in the row's values list.
C9_OriginalValueWriteOnce ==
  [][\A r \in RowIndices : \A i \in 1..Len(rows[r]) :
       LET cleared == MutationStep /\ last'.op = "clearResultCell" /\ last'.r = r
           j == IF cleared THEN IndexAfterFilter(rows[r], last'.c, i) ELSE i
       IN (/\ rows[r][i].originalValue # Undef
           /\ ~(cleared /\ rows[r][i].columnIndex = last'.c))
          => /\ j <= Len(rows'[r])
             /\ rows'[r][j].columnIndex = rows[r][i].columnIndex
             /\ rows'[r][j].originalValue = rows[r][i].originalValue]_vars

\* setCellValue has overwritten the value of a corrected cell, whose
\* originalValue is still the one stored by the first correction
C9_Witness ==
  /\ last.op = "setCellValue" /\ last.applied
  /\ \E i \in 1..Len(rows[last.r]) :
       /\ rows[last.r][i].columnIndex = last.c
       /\ rows[last.r][i].originalValue # Undef
       /\ rows[last.r][i].value = last.v
       /\ rows[last.r][i].value # rows[last.r][i].originalValue

\* C10: markResultCellFinal(r, c) on a cell with no value (absent, null or
\* empty string) changes nothing: the payload, changedRowIndices, the pending
\* set and hasUnsavedChanges are unchanged and no signal is issued.
C10_MarkFinalNoValueIsNoOp ==
  [][(/\ MutationStep /\ last'.op = "markResultCellFinal"
      /\ data # 0
      /\ NoValue(rows[last'.r], last'.c))
     => /\ rows' = rows
        /\ UNCHANGED <<changedRowIndices, batchChangedRows, hasUnsavedChanges>>
        /\ last'.sig = 0]_vars


\* C11: clearResultCell(r, c) on an existing row, Idle or Batching, removes
\* every CellValue of column c from row r's values list and leaves the other
\* cells of the row, in their order, and the other rows as they were; a
\* getCellValueByIndex(r, c) after it returns null.
C11_ClearRoundTrip ==
  [][(MutationStep /\ last'.op = "clearResultCell" /\ last'.applied) =>
       /\ rows'[last'.r] =
            SelectSeq(rows[last'.r], LAMBDA cell : cell.columnIndex # last'.c)
       /\ \A r \in RowIndices \ {last'.r} : rows'[r] = rows[r]
       /\ GetCellValueByIndex(Store', last'.r, last'.c).val = Null]_vars

\* the first mutation after the load cleared, while Batching, the rawdata cell
\* that row 1 of the sample holds
C11_Witness ==
  /\ last.op = "clearResultCell" /\ last.applied /\ last.batching
  /\ mutations = 1 /\ last.r = 1 /\ last.c = 5
  /\ rows[1] = <<>>


\* C12: a mutation called while no dataset is loaded, or with a rowIndex that
\* no row of the payload has, changes nothing: the payload, changedRowIndices,
\* the pending set and hasUnsavedChanges stay as they were and no
\* invalidation signal is issued.
C12_FailSoftMutations ==
  [][(MutationStep /\ (data = 0 \/ last'.r \notin RowIndices)) =>
       /\ UNCHANGED <<data, rows, changedRowIndices, batchChangedRows,
                      hasUnsavedChanges>>
       /\ last'.sig = 0
       /\ ~last'.applied]_vars

\* a mutation was called on a missing row of a loaded, already modified dataset
C12_Witness ==
  /\ last.op \in MutationOps /\ last.r = MissingRow /\ ~last.applied
  /\ data # 0 /\ hasUnsavedChanges /\ changedRowIndices # {}


\* C13: a multi-cell grid action hands its cells to the processor in the order
\* of the list submitted to processInChunks; while it runs, chunk boundaries
\* included, it has issued no invalidation signal; when it has ended, all its
\* cells have been processed in order and it has issued exactly one signal.
C13_BulkActionOrder ==
  /\ (grid.kind # "none" /\ grid.shouldBatch) =>
        /\ grid.signals = 0
        /\ grid.processed = SubSeq(grid.cells, 1, grid.done)
  /\ (grid.kind = "none" /\ Len(grid.processed) > 1) =>
        /\ grid.signals = 1
        /\ grid.processed = <<<<1, grid.processed[1][2]>>, <<2, grid.processed[1][2]>>>>

\* a two-cell action that changed both rows has ended, after a chunk boundary
C13_Witness ==
  /\ grid.kind = "none" /\ Len(grid.processed) = 2 /\ grid.signals = 1
  /\ changedRowIndices = RowIndices /\ ~isBatching

\* the columns of an array that have the given type
ColumnsOfType(cols, type) ==
  {cols[i] : i \in {j \in DOMAIN cols : ~IsStatic(cols[j]) /\ ColumnDef(cols[j]).columnType = type}}

\* the value of filteredColumns is current: it was computed on the loaded
\* dataset and nothing it depends on changed since
FilteredColumnsCurrent == data # 0 /\ ~filter.dirty /\ filter.tracked

\* C14: whenever viewMode = report, filteredColumns contains no correction
\* column, every rawdata column it contains has isSelected = true, and the
\* five static columns are all retained.
C14_ReportViewFilter ==
  (FilteredColumnsCurrent /\ filter.viewMode = "report") =>
    /\ ColumnsOfType(filter.value.cols, "correction") = {}
    /\ \A c \in ColumnsOfType(filter.value.cols, "rawdata") : ColumnDef(c).isSelected = "true"
    /\ SubSeq(filter.value.cols, 1, STATIC_COLUMN_COUNT) = <<0, 1, 2, 3, 4>>

\* what the filter state asks for: the static columns and the dynamic columns
\* of the selected service item (when one is selected) whose analyte is
\* reportable (when showReportableOnly) and that pass the report-mode stage
\* (in report mode)
PassesFilters(F, c) ==
  \/ IsStatic(c)
  \/ /\ F.selectedServiceItemIndex # 0 => ColumnDef(c).serviceItemIndex = F.selectedServiceItemIndex
     /\ F.showReportableOnly =>
          \E i \in DOMAIN Analytes :
            Analytes[i].analyteIndex = ColumnDef(c).analyteIndex /\ Analytes[i].reportable
     /\ F.viewMode = "report" => ReportStageKeeps(c)

\* C15: after any sequence of filter changes, cell mutations and invalidation
\* signals on one payload, filteredColumns is the pipeline of the current
\* filter state: all five static columns and exactly the dynamic columns that
\* pass the three stages, never the memoized result of an earlier filter state.
C15_FilteredColumnsFollowFilterState ==
  FilteredColumnsCurrent =>
    filter.value.cols =
      SelectSeq(<<0, 1, 2, 3, 4, 5, 6, 7, 8, 9, 10>>, LAMBDA c : PassesFilters(filter, c))

C15_Witness ==
  /\ FilteredColumnsCurrent /\ filter.lastEval.hit
  /\ filter.filterChangeCounter = MaxFilterChanges /\ mutations > 0
  /\ filter.selectedServiceItemIndex = 1 /\ ~filter.showReportableOnly
  /\ filter.viewMode = "report"
  /\ filter.value.cols = <<0, 1, 2, 3, 4, 5, 6>>

\* C16: with no service item selected filteredRows is all rows; with one
\* selected it is exactly the rows whose travelerNo is in that service item's
\* traveler-number list, and it is empty when the list is empty or missing or
\* the service item index is unknown.
C16_RowFilter ==
  data # 0 =>
    LET sel == filter.selectedServiceItemIndex
        listed(r) == \E i \in DOMAIN ServiceItems :
                       /\ ServiceItems[i].siIndex = sel
                       /\ ServiceItems[i].hasTravelerNo
                       /\ InList(StaticField(r, 2), ServiceItems[i].travelerNo)
    IN /\ sel = 0 => FilteredRows(Store) = <<1, 2>>
       /\ sel # 0 => FilteredRows(Store) = SelectSeq(<<1, 2>>, listed)
       /\ sel \in {2, 3, UnknownServiceItem} => FilteredRows(Store) = <<>>

C16_Witness ==
  /\ data # 0 /\ filter.selectedServiceItemIndex = 1 /\ FilteredRows(Store) = <<1>>
  /\ mutations > 0 /\ filter.filterChangeCounter = MaxFilterChanges

\* a read of filteredColumns that runs the getter on the loaded dataset
EvaluationStep == data # 0 /\ filter.dirty /\ ~filter'.dirty

\* C17 as stated: any two evaluations of filteredColumns under the same
\* (selectedServiceItemIndex, showReportableOnly, viewMode) and the same
\* payload reference return the same array object, whatever happened between
\* them.
C17_SameStateSameArray ==
  [][EvaluationStep =>
       /\ filter.lastEval.key = CacheKey(filter) => filter'.value.id = filter.lastEval.id
       /\ filter.prevEval.key = CacheKey(filter) => filter'.value.id = filter.prevEval.id]_vars

\* C17 amended: two evaluations of filteredColumns under the same filter state
\* and the same payload reference return the same array object when no
\* evaluation under another filter state happened between them, also when cell
\* mutations, invalidation signals and filter assignments happened between
\* them; assigning an identical filter value does not make the next
\* evaluation produce a new array.
C17_FilterIdempotence ==
  [][EvaluationStep =>
       (filter.lastEval.key = CacheKey(filter) => filter'.value.id = filter.lastEval.id)]_vars

C17_Witness ==
  /\ FilteredColumnsCurrent /\ filter.lastEval.hit
  /\ filter.value.id = filter.lastEval.id
  /\ last.op = "clearResultCell" /\ last.sig = 1
  /\ filter.filterChangeCounter > 0 /\ filter.viewMode = "report"

\* the formatter has classified the result cell of a row whose value is a number
ClassifiedNumeric ==
  /\ fmt.loaded /\ fmt.column = ResultColumn /\ fmt.row \in DOMAIN fmt.rows
  /\ ParseFloat(fmt.rows[fmt.row].value).k = "num"

\* two quotients are the same double
SameRatio(v, w) ==
  IF v.d = 0 \/ w.d = 0 THEN v.d = w.d /\ (v.n = 0) = (w.n = 0)
  ELSE v.n * w.d = w.n * v.d

\* the variance the formatter computes for the classified row and a sibling
ComputedVariance(D, i, j) ==
  IF ToUpperCase(D.rows[i].controlType) \in OriginalTypes
  THEN OriginalVariance(ParseFloat(D.rows[i].value).n, ParseFloat(D.rows[j].value).n)
  ELSE DuplicateVariance(ParseFloat(D.rows[i].value).n, ParseFloat(D.rows[j].value).n)

\* |thisValue - siblingValue| / thisValue
OwnValueVariance(D, i, j) ==
  Ratio(Abs(ParseFloat(D.rows[i].value).n - ParseFloat(D.rows[j].value).n),
        ParseFloat(D.rows[i].value).n)

NumericSiblings(D, i) == {j \in MatchingRows(D, i) : ~SkippedValue(D.rows[j].value)}

\* C18: for every matched pair, in both directions, the variance is
\* |thisValue - siblingValue| / thisValue * 100, thisValue being the value of
\* the cell that is classified.
C18_VarianceNormalizedByOwnValue ==
  ClassifiedNumeric =>
    \A j \in NumericSiblings(fmt, fmt.row) :
      SameRatio(ComputedVariance(fmt, fmt.row, j), OwnValueVariance(fmt, fmt.row, j))

\* v * 100 > threshold for a quotient v whose denominator is not negative
VarianceAbove(v, threshold) ==
  IF v.d = 0 THEN v.n > 0 ELSE 100 * v.n > threshold * v.d

ClassRank(cls) ==
  IF cls \in {"cell-variance-dup-high", "cell-variance-prd-high", "cell-variance-crd-high"} THEN 2
  ELSE IF cls \in {"cell-variance-dup-medium", "cell-variance-prd-medium",
                   "cell-variance-crd-medium"} THEN 1
  ELSE 0

\* the dataset without the row at index j
WithoutRow(D, j) ==
  [D EXCEPT !.rows = SubSeq(D.rows, 1, j - 1) \o SubSeq(D.rows, j + 1, Len(D.rows))]

\* C19: for a result cell of a DUP-, PRD- or CRD-family row with a numeric
\* value, the class is high when the largest variance over the matched sibling
\* rows with a numeric value is > 20, medium when it is > 10 and <= 20, none
\* otherwise (also when no sibling matches); a further sibling can only keep
\* or raise the class.
C19_VarianceClassification ==
  (ClassifiedNumeric /\ fmt.rows[fmt.row].controlType \in OriginalTypes \cup DuplicateTypes) =>
    LET variances == {OwnValueVariance(fmt, fmt.row, j) : j \in NumericSiblings(fmt, fmt.row)}
        above(threshold) == \E v \in variances : VarianceAbove(v, threshold)
    IN /\ ClassRank(fmt.cls) = IF above(20) THEN 2 ELSE IF above(10) THEN 1 ELSE 0
       /\ \A j \in DOMAIN fmt.rows \ {fmt.row} :
            LET i == IF j < fmt.row THEN fmt.row - 1 ELSE fmt.row
                fewer == WithoutRow(fmt, j)
            IN ClassRank(GetResultCellFormattingClass(fewer, fmt.column, fewer.rows[i].value, i))
                 <= ClassRank(fmt.cls)

\* a limit is present when it parses to a number
LimitPresent(limit) == ParseFloat(limit).k = "num"

\* C20: for a result cell of a CRM row with numeric value x and analyte limits
\* L and U, the class is below-limit when L is present and x < L, otherwise
\* above-limit when U is present and x > U, otherwise within-limit only when
\* both are present and L <= x <= U, and no class in every other case (value
\* missing or not numeric, or the relevant limit missing).
C20_CrmClassification ==
  (/\ fmt.loaded /\ fmt.column = ResultColumn /\ fmt.row \in DOMAIN fmt.rows
   /\ fmt.rows[fmt.row].controlType = "CRM") =>
    LET v == fmt.rows[fmt.row].value
        numeric == v # Null /\ v # EmptyStr /\ ParseFloat(v).k = "num"
        x == ParseFloat(v).n
        L == ParseFloat(fmt.lowerLimit).n
        U == ParseFloat(fmt.upperLimit).n
        below == numeric /\ LimitPresent(fmt.lowerLimit) /\ x < L
        above == numeric /\ ~below /\ LimitPresent(fmt.upperLimit) /\ x > U
        within == /\ numeric /\ ~below /\ ~above
                  /\ LimitPresent(fmt.lowerLimit) /\ LimitPresent(fmt.upperLimit)
                  /\ L <= x /\ x <= U
    IN /\ below <=> fmt.cls = "cell-below-limit"
       /\ above <=> fmt.cls = "cell-above-limit"
       /\ within <=> fmt.cls = "cell-within-limit"
       /\ (~below /\ ~above /\ ~within) <=> fmt.cls = ""

C20_Witness ==
  /\ fmt.loaded /\ fmt.column = ResultColumn /\ fmt.row = 1
  /\ fmt.rows[1].controlType = "CRM" /\ fmt.rows[1].value = Num(10)
  /\ fmt.lowerLimit = Str(9) /\ fmt.upperLimit = Str(10)
  /\ fmt.cls = "cell-within-limit"

\* the control types that pair up: an original type with its duplicate types
PairedTypes(a, b) ==
  \/ a = "ORIGINAL" /\ b \in {"REJECTDUP", "PULPDUP"}
  \/ a = "ORGCRD" /\ b = "CRD"
  \/ a = "ORGPRD" /\ b = "PRD"

\* the matching rule as stated: equal travelerNo, and the suffix rule for the
\* DUP family or positions that differ by one for the CRD and PRD families
MatchRule(a, b) ==
  /\ a.travelerNo = b.travelerNo
  /\ IF ToUpperCase(a.controlType) = "ORIGINAL"
     THEN b.sampleName \in {a.sampleName \o <<"-R">>, a.sampleName \o <<"-X">>}
     ELSE b.seqNo = a.seqNo + 1

\* C21: sibling matching is the exact reverse in both directions: an original
\* row A selects a duplicate row B if and only if B selects A, for the DUP, CRD
\* and PRD families; a match requires equal travelerNo and the suffix rule or
\* seqNo differing by one; controlType is compared case-insensitively.
C21_MatchingIsSymmetric ==
  (fmt.loaded /\ fmt.column = ResultColumn /\ fmt.row \in DOMAIN fmt.rows) =>
    \A j \in DOMAIN fmt.rows :
      LET A == fmt.rows[fmt.row]
          B == fmt.rows[j]
      IN PairedTypes(ToUpperCase(A.controlType), ToUpperCase(B.controlType)) =>
           /\ j \in MatchingRows(fmt, fmt.row) <=> fmt.row \in MatchingRows(fmt, j)
           /\ j \in MatchingRows(fmt, fmt.row) <=> MatchRule(A, B)

\* ------------------------------------------------------ projection actions
\* the component is set up: watch() evaluates its sources once, without
\* calling the callback
mountGrid ==
  /\ ~proj.mounted
  /\ LET E == TabulatorData([Store EXCEPT !.proj.mounted = TRUE])
     IN Commit(E)
  /\ UNCHANGED <<historyVars, grid, fmt>>

\* the promise of a grid update settles: its then-callback runs
\* store.clearChangedRows()
UpdateCompleted(S, u) ==
  LET S1 == IF u.lowersRefresh THEN SetNeedsFormatterRefresh(S, FALSE) ELSE S
      S2 == ClearChangedRows(S1)
  IN IF u.lowersFiltering THEN [S2 EXCEPT !.filter.isFiltering = FALSE] ELSE S2

RemoveAt(q, i) == [k \in 1 .. (Len(q) - 1) |-> IF k < i THEN q[k] ELSE q[k + 1]]

updateCompleted ==
  \E i \in DOMAIN proj.pending :
    /\ Commit(UpdateCompleted([Store EXCEPT !.proj.pending = RemoveAt(@, i)],
                              proj.pending[i]))
    /\ UNCHANGED <<historyVars, grid, fmt>>

NextProjection ==
  \/ loadData
  \/ handlerEntry
  \/ handleCopyToResultCell
  \/ handleMarkFinalCell
  \/ handleClearResultsCell
  \/ handleManualCorrectionCell
  \/ applyBaselineCorrection
  \/ applyMultiplier
  \/ processInChunks
  \/ chunkBoundary
  \/ gridActionEnd
  \/ mountGrid
  \/ updateCompleted

SpecProjection == Init /\ [][NextProjection]_vars

\* The projection under the filters: the store's setCellValue changes the
\* cells, the debounced setters the filter state (MaxProjectionFilterChanges
\* times at most).
MaxProjectionFilterChanges == 1

projectionSetServiceItem ==
  /\ filter.filterChangeCounter < MaxProjectionFilterChanges
  /\ debouncedSetServiceItem

projectionSetViewMode ==
  /\ filter.filterChangeCounter < MaxProjectionFilterChanges
  /\ debouncedSetViewMode

NextProjectionFilter ==
  \/ loadData
  \/ setCellValue
  \/ projectionSetServiceItem
  \/ projectionSetViewMode
  \/ mountGrid
  \/ updateCompleted

SpecProjectionFilter == Init /\ [][NextProjectionFilter]_vars

\* the step evaluates tabulatorData, on a dataset that the previous evaluation
\* saw too
ProjectionEvaluated ==
  /\ proj.mounted
  /\ proj'.evaluations # proj.evaluations
  /\ proj.path \notin {"none", "nodata"}
  /\ proj'.path # "nodata"

\* C22: when tabulatorData is evaluated again and the filtered column indices
\* and the filtered row count are the ones of the previous evaluation and
\* changedRowIndices is empty, it returns the array object the previous
\* evaluation returned
C22_ProjectionReuse ==
  [][(/\ ProjectionEvaluated
      /\ proj'.indices = proj.indices
      /\ proj'.count = proj.count
      /\ proj'.changed = {})
     => proj'.value.id = proj.value.id]_vars

\* the row objects of array a that are not objects of array b at the same
\* position
ReplacedRows(a, b) ==
  {a.rows[i].rowIndex : i \in {j \in DOMAIN a.rows :
                                 j \notin DOMAIN b.rows \/ a.rows[j].id # b.rows[j].id}}

\* C23: when tabulatorData is evaluated again with the filtered column
\* indices and the filtered row count of the previous evaluation and a
\* non-empty changedRowIndices, the array it returns has the length and the
\* row order of the previous one, and only entries of rows in
\* changedRowIndices are other objects than before
C23_IncrementalProjection ==
  [][(/\ ProjectionEvaluated
      /\ proj'.indices = proj.indices
      /\ proj'.count = proj.count
      /\ proj'.changed # {})
     => /\ Len(proj'.value.rows) = Len(proj.value.rows)
        /\ \A i \in DOMAIN proj.value.rows :
             proj'.value.rows[i].rowIndex = proj.value.rows[i].rowIndex
        /\ ReplacedRows(proj'.value, proj.value) \subseteq proj'.changed]_vars

\* the payload's value of cell (r, c): the value of the entry of column c in
\* the row's values (the last one, should there be several), null if absent
PayloadValue(r, c) ==
  LET I == {i \in DOMAIN rows[r] : rows[r][i].columnIndex = c}
  IN IF I = {} THEN Null
     ELSE LET v == rows[r][CHOOSE i \in I : \A j \in I : j <= i].value
          IN IF v = Undef THEN Null ELSE v

\* nothing is in progress: tabulatorData is up to date with its dependencies,
\* no handler is between its entry and its end, no batch is open
ProjectionQuiescent ==
  /\ data # 0
  /\ proj.tracked
  /\ ~proj.dirty
  /\ changedRowIndices = {}
  /\ grid.kind = "none"
  /\ ~isBatching

setApiEndpoint ==
  \E endpoint \in Endpoints :
    /\ endpoint # io.apiEndpoint
    /\ io.load.phase = "idle"
    /\ io.save = "idle"
    /\ Commit([Store EXCEPT !.io.apiEndpoint = endpoint])
    /\ UNCHANGED <<historyVars, grid, fmt>>

\* loadData() with an endpoint, up to its first request
loadDataRequest ==
  /\ data = 0
  /\ HasEndpoint(Store)
  /\ io.load.phase = "idle"
  /\ Commit(RequestAttempt([LoadDataStart(Store) EXCEPT !.io.attempts = <<>>], 0))
  /\ last' = NoArgs("loadData")
  /\ UNCHANGED <<mutations, batchMutated, batchMutations, batchSignals, grid, fmt>>

\* the request settles: loadData() runs to its next request, its delay or its end
loadDataSettled ==
  /\ io.load.phase = "request"
  /\ \E outcome \in FetchOutcomes(io.apiEndpoint) :
       Commit(RetryWithBackoff(Store, outcome))
  /\ UNCHANGED <<historyVars, grid, fmt>>

\* the delay before the next attempt is over: the next request
retryDelayElapsed ==
  /\ io.load.phase = "backoff"
  /\ Commit(RequestAttempt(Store, io.load.attempt + 1))
  /\ UNCHANGED <<historyVars, grid, fmt>>

saveData ==
  /\ io.saves < MaxSaves
  /\ io.save = "idle"
  /\ Commit(SaveData(Store))
  /\ UNCHANGED <<historyVars, grid, fmt>>

saveDataSettled ==
  /\ io.save = "post"
  /\ \E outcome \in FetchWithTimeoutOutcomes(io.apiEndpoint) :
       Commit(SaveDataSettled(Store, outcome))
  /\ UNCHANGED <<historyVars, grid, fmt>>

NextIO ==
  \/ setApiEndpoint
  \/ loadData
  \/ loadDataRequest
  \/ loadDataSettled
  \/ retryDelayElapsed
  \/ setCellValue
  \/ saveData
  \/ saveDataSettled

SpecIO == Init /\ [][NextIO]_vars

\* C24: a loadData() with an endpoint makes at most 3 requests; a request is
\* made again only after a request that failed with a network-level error
\* (never after a Response, ok or not, nor after any other failure); the third
\* network failure is reported in error and ends the call
C24_LoadRetryPolicy ==
  [][/\ Len(io'.attempts) <= MaxRetries
     /\ (Len(io'.attempts) = Len(io.attempts) + 1 /\ io.attempts # <<>>)
          => io.attempts[Len(io.attempts)] = "network"
     /\ (/\ Len(io.attempts) = MaxRetries
         /\ io.attempts[MaxRetries] = "pending"
         /\ io'.attempts = [io.attempts EXCEPT ![MaxRetries] = "network"])
          => io'.error = "Failed to fetch" /\ io'.load.phase = "idle" /\ ~io'.loading]_vars

\* C25: a saveData() called with no dataset loaded or with no endpoint raises
\* an error in the call, sends no request then or later, leaves loading false
\* and leaves the payload and hasUnsavedChanges as they were
C25_SavePreconditions ==
  [][(io'.saves # io.saves /\ (data = 0 \/ io.apiEndpoint = NoEndpoint))
       => /\ io'.raised # NoError
          /\ io'.posts = io.posts
          /\ io'.save = "idle"
          /\ ~io'.loading
          /\ data' = data
          /\ rows' = rows
          /\ hasUnsavedChanges' = hasUnsavedChanges]_vars

C25_Witness ==
  /\ io.saves > 0
  /\ io.raised = "Cannot save: API endpoint not configured"
  /\ io.posts = 0
  /\ data # 0
  /\ hasUnsavedChanges
  /\ ~io.loading


\* ------------------------------------------------- reads of static columns
\* Cells of static and of dynamic columns are written through the store, and
\* the static columns of both rows are read.
StaticCallCells == {<<1, 2>>, <<2, 4>>, <<1, 5>>}

setCellValueStatic ==
  \E rc \in StaticCallCells, vs \in InputSets :
    Mutation("setCellValue", rc[1], rc[2], vs[1],
             SetCellValue(Store, rc[1], rc[2], vs[1], vs[2]))

clearResultCellStatic ==
  \E rc \in StaticCallCells :
    Mutation("clearResultCell", rc[1], rc[2], Undef,
             ClearResultCell(Store, rc[1], rc[2]))

\* getCellValueByIndex(r, c) of a static column; last.v is what it returned
\* and last.applied whether a dataset was loaded
getCellValueByIndexStatic ==
  \E r \in RowIndices, c \in StaticCols :
    LET G == GetCellValueByIndex(Store, r, c)
    IN /\ Commit(G.st)
       /\ last' = [Op("getCellValueByIndex", r, c, G.val) EXCEPT !.applied = data # 0]
       /\ UNCHANGED <<mutations, batchMutated, batchMutations, batchSignals, grid, fmt>>

NextStatic ==
  \/ loadData
  \/ setCellValueStatic
  \/ clearResultCellStatic
  \/ startBatch
  \/ endBatch
  \/ getCellValueByIndexStatic

SpecStatic == Init /\ [][NextStatic]_vars

\* C28: with a dataset loaded, getCellValueByIndex(r, c) of a row r of the
\* payload and a static column c (0..4) returns the row's field of that
\* column, whatever entries the row's values list holds and whatever
\* mutations were applied before
C28_StaticColumnsFromRowFields ==
  (last.op = "getCellValueByIndex" /\ last.applied /\ last.c \in StaticCols)
    => last.v = StaticField(last.r, last.c)

C28_Witness ==
  /\ last.op = "getCellValueByIndex"
  /\ last.applied
  /\ last.c = 2
  /\ mutations > 0
  /\ \E i \in DOMAIN rows[last.r] :
       /\ rows[last.r][i].columnIndex = last.c
       /\ rows[last.r][i].value # StaticField(last.r, last.c)


\* ------------------------------------------------ validation of the target
\* The handlers invoked on any column (static, rawdata, result), with and
\* without a dataset and a grid instance, on ranges of one or two columns.
TargetCols == {2, 5, 6}
SelectedCols == {<<6>>, <<5, 6>>, <<2, 5>>}
ResultOnlyKinds == {"markFinal", "clearResults", "applyBaseline", "applyMultiplier"}
CorrectionKinds == {"applyBaseline", "applyMultiplier"}
\* handlers that pass their validation in one behaviour
MaxValidatedActions == 1

ValidateTabulatorOperation(hasInstance, S) == S.data # 0 /\ hasInstance

\* the tests a handler makes before it raises needsFormatterRefresh; column 0
\* stands for manualCorrectionColumn.value = null
HandlerValidates(S, kind, column, hasInstance) ==
  /\ ValidateTabulatorOperation(hasInstance, S)
  /\ IF kind \in CorrectionKinds
     THEN column # 0 /\ ColumnType(column) = "result"
     ELSE ValidateColumnOperation(column, "result")

\* extractCellsFromRanges on one range: the columns that are dynamic and pass
\* the filter, then every row of the range with every such column
ExtractCells(selRows, selCols, resultOnly) ==
  LET columnIndices ==
        SelectSeq(selCols, LAMBDA c : /\ c >= STATIC_COLUMN_COUNT
                                      /\ (resultOnly => ColumnType(c) = "result"))
      n == Len(columnIndices)
  IN [k \in 1..(Len(selRows) * n) |->
        <<selRows[((k - 1) \div n) + 1], columnIndices[((k - 1) % n) + 1]>>]

\* the argument of the processor of a handler
HandlerArg(kind) ==
  IF kind = "applyBaseline" THEN BaselineValue
  ELSE IF kind = "applyMultiplier" THEN MultiplierValue
  ELSE Undef

openManualCorrectionDialog ==
  \E c \in TargetCols :
    /\ grid.kind = "none"
    /\ ~grid.entered
    /\ grid.dialog # c
    /\ grid' = [grid EXCEPT !.dialog = c]
    /\ UNCHANGED <<storeVars, historyVars, fmt>>

\* a handler from its call to its return or to its await of withLoadingOverlay
invokeHandler ==
  \E kind \in ResultOnlyKinds, c \in TargetCols, hasInstance \in BOOLEAN :
    /\ grid.kind = "none"
    /\ ~grid.entered
    /\ LET column == IF kind \in CorrectionKinds THEN grid.dialog ELSE c
           ok == HandlerValidates(Store, kind, column, hasInstance)
       IN /\ ok => grid.started < MaxValidatedActions
          /\ Commit(IF ok THEN SetNeedsFormatterRefresh(Store, TRUE) ELSE Store)
          /\ grid' = [grid EXCEPT !.entered = ok,
                                  !.invoked = [kind |-> kind, column |-> column,
                                               hasInstance |-> hasInstance,
                                               n |-> (@.n + 1) % 2]]
    /\ UNCHANGED <<historyVars, fmt>>

\* the operation of the invoked handler: it returns when no cell of the
\* ranges passes the filter, else it runs to the first await of processInChunks
operationStart ==
  \E selRows \in SelectedRows, selCols \in SelectedCols :
    LET cellsToProcess == ExtractCells(selRows, selCols, TRUE)
    IN /\ grid.entered
       /\ grid.invoked.kind # "none"
       /\ IF cellsToProcess = <<>>
          THEN /\ grid' = [grid EXCEPT !.entered = FALSE]
               /\ UNCHANGED <<storeVars, historyVars, fmt>>
          ELSE GridBegin(grid.invoked.kind, cellsToProcess, HandlerArg(grid.invoked.kind))

\* values are entered through the store before the handlers are invoked
enterValue ==
  /\ grid.started = 0
  /\ ~grid.entered
  /\ grid.invoked.kind = "none"
  /\ setCellValue

NextValidation ==
  \/ loadData
  \/ enterValue
  \/ openManualCorrectionDialog
  \/ invokeHandler
  \/ operationStart
  \/ processInChunks
  \/ chunkBoundary
  \/ gridActionEnd

SpecValidation == Init /\ [][NextValidation]_vars

\* the cells of a row in the columns that are not result columns
OtherCells(vals) == SelectSeq(vals, LAMBDA cell : ColumnType(cell.columnIndex) # "result")

\* the target of the invocation allows the operation: a dataset and a grid
\* instance exist, and the column is a dynamic column of type result
TargetAllowed(column, hasInstance) ==
  /\ data # 0
  /\ hasInstance
  /\ column >= STATIC_COLUMN_COUNT
  /\ ColumnType(column) = "result"

\* C27: Mark Final, Clear Results, Apply Baseline Correction and Apply
\* Multiplier invoked on a column that is not a result column (static, or
\* none), or with no dataset or no grid instance, mutate nothing, start no
\* batch, issue no signal and leave needsFormatterRefresh alone; and the steps
\* of these handlers leave the cells of every column that is not a result
\* column as they were
C27_ValidationBeforeMutation ==
  [][/\ (/\ grid'.invoked.n # grid.invoked.n
         /\ ~TargetAllowed(grid'.invoked.column, grid'.invoked.hasInstance))
          => /\ rows' = rows
             /\ isBatching' = isBatching
             /\ batchChangedRows' = batchChangedRows
             /\ changedRowIndices' = changedRowIndices
             /\ hasUnsavedChanges' = hasUnsavedChanges
             /\ grid'.signals = grid.signals
             /\ proj'.needsFormatterRefresh = proj.needsFormatterRefresh
             /\ ~grid'.entered
             /\ grid'.kind = "none"
     /\ (grid' # grid /\ (grid.kind \in ResultOnlyKinds \/ grid'.kind \in ResultOnlyKinds))
          => \A r \in RowIndices : OtherCells(rows'[r]) = OtherCells(rows[r])]_vars

C27_Witness ==
  /\ grid.invoked.kind = "markFinal"
  /\ grid.invoked.column = 5
  /\ grid.invoked.hasInstance
  /\ data # 0
  /\ ~grid.entered
  /\ grid.kind = "none"
  /\ Len(grid.cells) = 0
  /\ \E k \in DOMAIN grid.processed : grid.processed[k][2] = ResultColumn
  /\ \E r \in RowIndices : \E i \in DOMAIN rows[r] :
       rows[r][i].columnIndex = ResultColumn /\ rows[r][i].isFinal

\* ------------------------------------------------------ processor failure
\* The processor of an item after the first throws before it changes the
\* store: processInChunks rejects, the operation of the handler rejects at
\* its await (the endBatch() after it is not reached), withLoadingOverlay
\* hides the overlay and rethrows, and the handler's catch shows a toast.
processorFails ==
  /\ grid.kind # "none"
  /\ grid.done < Len(grid.cells)
  /\ grid.done % GridChunkSize # 0 \/ grid.yielded
  /\ Commit(Store)
  /\ grid' = [grid EXCEPT !.kind = "none", !.failed = grid.done + 1, !.yielded = FALSE]
  /\ UNCHANGED <<historyVars, fmt>>

NextFailure ==
  \/ loadData
  \/ handlerEntry
  \/ handleCopyToResultCell
  \/ processInChunks
  \/ chunkBoundary
  \/ processorFails
  \/ gridActionEnd
  \/ getCellValueByIndex
  \/ clearChangedRows

SpecFailure == Init /\ [][NextFailure]_vars

\* C26: after the processor of item k of Copy to Result has failed, no item
\* from k on has been processed, and for every item before k the value copied
\* to the result cell is in the payload (applied) and is what
\* getCellValueByIndex returns for the result cell (readable)
C26_FailureKeepsEarlierMutations ==
  grid.failed > 0 =>
    /\ grid.kind = "none"
    /\ grid.processed = SubSeq(grid.cells, 1, grid.failed - 1)
    /\ \A k \in 1..(grid.failed - 1) :
         LET r == grid.cells[k][1]
             source == PayloadValue(r, grid.cells[k][2])
         IN HasValue(source) =>
              /\ PayloadValue(r, ResultColumn) = source
              /\ GetCellValueByIndex(Store, r, ResultColumn).val = source

\* ------------------------------------------------- overlapping bulk actions
\* Copy to Result invoked twice on ranges of the rawdata column; the second
\* invocation may start while the first waits at a chunk boundary, and the
\* rows of a range come in the order the grid displays them.
SourceColumn == 5
OverlapSelections == {<<1>>, <<1, 2>>, <<2, 1>>}

\* history: the rows invocation i has just mutated are owed by it, and no row
\* that is in changedRowIndices is owed
Owe(bulk, i, mutated, changed) ==
  [j \in Slots |->
     [bulk[j] EXCEPT !.owed = (@ \cup (IF j = i THEN mutated ELSE {})) \ changed]]

MutatedRow(P, item) == IF P.applied THEN {item[1]} ELSE {}

bulkEntry(i) ==
  /\ grid.bulk[i].phase = "idle"
  /\ data # 0
  /\ Commit(SetNeedsFormatterRefresh(Store, TRUE))
  /\ grid' = [grid EXCEPT !.bulk[i].phase = "entered"]
  /\ UNCHANGED <<historyVars, fmt>>

bulkBegin(i) ==
  \E selRows \in OverlapSelections :
    LET cells == ExtractCellsFromRanges(selRows, SourceColumn, FALSE)
        item == NextItem(cells, 0)
        shouldBatch == Len(cells) > 1
        S == IF shouldBatch THEN StartBatch(Store) ELSE Store
        P == Processor(S, "copyToResult", item, Undef)
    IN /\ grid.bulk[i].phase = "entered"
       /\ Commit(P)
       /\ grid' = [grid EXCEPT !.bulk =
                     [Owe(grid.bulk, i, MutatedRow(P, item), changedRowIndices')
                        EXCEPT ![i].phase = "running", ![i].cells = cells,
                               ![i].done = 1, ![i].shouldBatch = shouldBatch,
                               ![i].yielded = FALSE]]
       /\ UNCHANGED <<historyVars, fmt>>

bulkItem(i) ==
  LET b == grid.bulk[i]
  IN /\ b.phase = "running"
     /\ b.done < Len(b.cells)
     /\ b.done % GridChunkSize # 0 \/ b.yielded
     /\ LET item == NextItem(b.cells, b.done)
            P == Processor(Store, "copyToResult", item, Undef)
        IN /\ Commit(P)
           /\ grid' = [grid EXCEPT !.bulk =
                         [Owe(grid.bulk, i, MutatedRow(P, item), changedRowIndices')
                            EXCEPT ![i].done = b.done + 1, ![i].yielded = FALSE]]
     /\ UNCHANGED <<historyVars, fmt>>

bulkYield(i) ==
  LET b == grid.bulk[i]
  IN /\ b.phase = "running"
     /\ b.done < Len(b.cells)
     /\ b.done % GridChunkSize = 0
     /\ ~b.yielded
     /\ grid' = [grid EXCEPT !.bulk[i].yielded = TRUE]
     /\ UNCHANGED <<storeVars, historyVars, fmt>>

bulkEnd(i) ==
  LET b == grid.bulk[i]
      E == IF b.shouldBatch THEN EndBatch(Store) ELSE Store
  IN /\ b.phase = "running"
     /\ b.done = Len(b.cells)
     /\ Commit(E)
     /\ grid' = [grid EXCEPT !.bulk =
                   [Owe(grid.bulk, i, {}, changedRowIndices')
                      EXCEPT ![i].phase = "ended",
                             ![i].lost = b.owed \ changedRowIndices']]
     /\ UNCHANGED <<historyVars, fmt>>

NextOverlap ==
  \/ loadData
  \/ \E i \in Slots : bulkEntry(i)
  \/ \E i \in Slots : bulkBegin(i)
  \/ \E i \in Slots : bulkItem(i)
  \/ \E i \in Slots : bulkYield(i)
  \/ \E i \in Slots : bulkEnd(i)

SpecOverlap == Init /\ [][NextOverlap]_vars

\* C30: for every interleaving of two bulk actions at their chunk yields,
\* startBatch() while Batching included: when a bulk action has ended, every
\* row it mutated has been in changedRowIndices since the mutation (at the
\* mutation when the store was Idle, else at an endBatch() no later than the
\* one that ends the action)
C30_NoChangedRowLost ==
  \A i \in Slots : grid.bulk[i].phase = "ended" => grid.bulk[i].lost = {}

\* -------------------------------------------------------- return to Idle
\* C31: whenever no grid action is between its first item and its end, the
\* store is Idle: an action that called startBatch() has called endBatch() by
\* the time it finishes, whether the processing of its items completed or
\* failed
C31_StoreReturnsToIdle == grid.kind = "none" => ~isBatching

\* -------------------------------------------------------- filtering flag
\* The filter functions called on a loaded dataset shown by a mounted grid.
\* A debounced setter runs once, 200 ms after the latest call, with the
\* argument of that call.
MaxFilterCalls == 2

ArmedTimers == {t \in DOMAIN filter.timers : filter.timers[t] # <<>>}

\* the calls made: the filter changes counted and the timers that run
FilterCalls == filter.filterChangeCounter + Cardinality(ArmedTimers)

FilterCallAllowed ==
  /\ data # 0
  /\ proj.mounted
  /\ FilterCalls < MaxFilterCalls

\* debounce(fn, 200) called with arg: the timer is started again
Debounce(S, timer, arg) == [S EXCEPT !.filter.timers[timer] = <<arg>>]

\* isFiltering.value = true; debouncedSet...(arg)
SetFilterCall(timer, arg) ==
  /\ data # 0
  /\ proj.mounted
  /\ FilterCalls < MaxFilterCalls \/ timer \in ArmedTimers
  /\ Commit(Debounce([Store EXCEPT !.filter.isFiltering = TRUE], timer, arg))
  /\ UNCHANGED <<historyVars, grid, fmt>>

setServiceItemFilter ==
  \E siIndex \in ServiceItemInputs : SetFilterCall("serviceItem", siIndex)

setReportableOnlyFilter ==
  \E enabled \in BOOLEAN : SetFilterCall("reportableOnly", enabled)

setViewMode ==
  \E mode \in ViewModes : SetFilterCall("viewMode", mode)

\* the timer of a debounced setter fires
TimerFires(timer, name) ==
  /\ timer \in ArmedTimers
  /\ FilterStep(CountFilterChange(
       SetFilterRef([filter EXCEPT !.timers[timer] = <<>>], name,
                    filter.timers[timer][1])))

serviceItemTimer == TimerFires("serviceItem", "selectedServiceItemIndex")

reportableOnlyTimer == TimerFires("reportableOnly", "showReportableOnly")

viewModeTimer == TimerFires("viewMode", "viewMode")

filteringClearAllFilters == FilterCallAllowed /\ clearAllFilters

filteringClearServiceItemFilter == FilterCallAllowed /\ clearServiceItemFilter

filteringClearReportableOnlyFilter == FilterCallAllowed /\ clearReportableOnlyFilter

NextFiltering ==
  \/ loadData
  \/ mountGrid
  \/ setServiceItemFilter
  \/ setReportableOnlyFilter
  \/ setViewMode
  \/ serviceItemTimer
  \/ reportableOnlyTimer
  \/ viewModeTimer
  \/ filteringClearAllFilters
  \/ filteringClearServiceItemFilter
  \/ filteringClearReportableOnlyFilter
  \/ updateCompleted

\* a timer that runs fires, and the promise of a grid update settles
SpecFiltering ==
  /\ Init
  /\ [][NextFiltering]_vars
  /\ WF_vars(serviceItemTimer)
  /\ WF_vars(reportableOnlyTimer)
  /\ WF_vars(viewModeTimer)
  /\ WF_vars(updateCompleted)

\* nothing that was started remains to happen: no timer runs and no grid
\* update is pending (the watcher runs in the step that invalidates
\* tabulatorData)
FilteringSettled ==
  /\ data # 0
  /\ proj.mounted
  /\ ArmedTimers = {}
  /\ proj.pending = <<>>

\* C32: with a loaded dataset and a mounted grid, every call of a filter
\* function, whatever value it asks for, is eventually followed by
\* isFiltering = false: once the timers the calls started have fired and the
\* grid updates they caused have completed, the flag is down
C32_FilteringReleased == FilteringSettled => ~filter.isFiltering


\* ------------------------------------------------------------------ reloads
\* loadData() is called again on a loaded dataset (DataTableContainer calls it
\* on mount, then App does), cells are edited and the dataset is saved, in any
\* order; one loadData() and one saveData() are in progress at a time.
\* initialData is set before the first loadData(), and the endpoint is set to
\* a url only (App.vue sets it when props.apiEndpoint is given).

\* loadData() calls made in one behaviour
MaxLoads == 2

\* the cell edited and the value written
ReloadCells == {<<1, 5>>}
ReloadInputs == {<<Num(1), 5>>}

\* loadData() up to its try block; history: the call and the object held
LoadDataCalled(S) ==
  [LoadDataStart(S) EXCEPT !.io.attempts = <<>>, !.io.loads = @ + 1,
                           !.io.before = S.io.payload, !.io.finished = "none"]

\* loadData() without endpoint: initialData.value, else the sample document
LoadDataLocal(S) ==
  [LoadDataFinally(SetData(S, IF S.io.initialData THEN InitialPayload
                              ELSE SamplePayload))
     EXCEPT !.io.finished = "ok"]

\* the call fails: a rejected request, a response that is not ok, or a body
\* that is no JSON document
LoadFailed(outcome) ==
  \/ outcome.k = "rejection"
  \/ ~outcome.ok
  \/ outcome.body = "invalid"

\* history of the step T a request that settled with outcome led to: how the
\* call ended, when the step ended it
LoadDataEnded(T, outcome) ==
  IF T.io.load.phase # "idle" THEN T
  ELSE [T EXCEPT !.io.finished = IF LoadFailed(outcome) THEN "failed" ELSE "ok"]

\* history of a mutation that was applied
Edited(S) ==
  IF S.applied
  THEN [S EXCEPT !.io.unsaved = TRUE, !.io.sinceBody = (S.io.save = "post")]
  ELSE S

\* history of the end of a saveData(): the body held what was applied before
\* the POST request was made
SaveEnded(S, T) ==
  IF T.io.raised = NoError
  THEN [T EXCEPT !.io.unsaved = S.io.sinceBody, !.io.sinceBody = FALSE]
  ELSE [T EXCEPT !.io.sinceBody = FALSE]

reloadSetInitialData ==
  /\ io.loads = 0
  /\ ~io.initialData
  /\ Commit([Store EXCEPT !.io.initialData = TRUE])
  /\ UNCHANGED <<historyVars, grid, fmt>>

reloadSetApiEndpoint ==
  \E endpoint \in Endpoints \ {NoEndpoint} :
    /\ endpoint # io.apiEndpoint
    /\ io.load.phase = "idle"
    /\ io.save = "idle"
    /\ Commit([Store EXCEPT !.io.apiEndpoint = endpoint])
    /\ UNCHANGED <<historyVars, grid, fmt>>

\* loadData() without endpoint
reloadData ==
  /\ io.loads < MaxLoads
  /\ ~HasEndpoint(Store)
  /\ io.load.phase = "idle"
  /\ Commit(LoadDataLocal(LoadDataCalled(Store)))
  /\ last' = NoArgs("loadData")
  /\ UNCHANGED <<mutations, batchMutated, batchMutations, batchSignals, grid, fmt>>

\* loadData() with an endpoint, up to its first request
reloadDataRequest ==
  /\ io.loads < MaxLoads
  /\ HasEndpoint(Store)
  /\ io.load.phase = "idle"
  /\ Commit(RequestAttempt(LoadDataCalled(Store), 0))
  /\ last' = NoArgs("loadData")
  /\ UNCHANGED <<mutations, batchMutated, batchMutations, batchSignals, grid, fmt>>

\* the request settles: loadData() runs to its next request, its delay or its end
reloadDataSettled ==
  /\ io.load.phase = "request"
  /\ \E outcome \in FetchOutcomes(io.apiEndpoint) :
       Commit(LoadDataEnded(RetryWithBackoff(Store, outcome), outcome))
  /\ UNCHANGED <<historyVars, grid, fmt>>

reloadSetCellValue ==
  \E rc \in ReloadCells, vs \in ReloadInputs :
    Mutation("setCellValue", rc[1], rc[2], vs[1],
             Edited(SetCellValue(Store, rc[1], rc[2], vs[1], vs[2])))

reloadSaveData ==
  /\ io.saves < MaxSaves
  /\ io.save = "idle"
  /\ Commit([SaveData(Store) EXCEPT !.io.sinceBody = FALSE])
  /\ UNCHANGED <<historyVars, grid, fmt>>

reloadSaveDataSettled ==
  /\ io.save = "post"
  /\ \E outcome \in FetchWithTimeoutOutcomes(io.apiEndpoint) :
       Commit(SaveEnded(Store, SaveDataSettled(Store, outcome)))
  /\ UNCHANGED <<historyVars, grid, fmt>>

NextReload ==
  \/ reloadSetInitialData
  \/ reloadSetApiEndpoint
  \/ reloadData
  \/ reloadDataRequest
  \/ reloadDataSettled
  \/ retryDelayElapsed
  \/ reloadSetCellValue
  \/ reloadSaveData
  \/ reloadSaveDataSettled

SpecReload == Init /\ [][NextReload]_vars

\* C33: whenever the payload holds an applied cell mutation that the body of
\* no completed saveData() contained and that no loadData() replaced with
\* another payload, hasUnsavedChanges is true
C33_UnsavedEditsTracked == (data # 0 /\ io.unsaved) => hasUnsavedChanges

\* the object a loadData() that succeeds leaves in data.value
LoadedPayload ==
  IF HasEndpoint(Store) THEN ResponsePayload(io.loads)
  ELSE IF io.initialData THEN InitialPayload
  ELSE SamplePayload

\* the steps a loadData() in progress can still take: requests and delays
LoadStepsLeft ==
  IF io.load.phase = "idle" THEN 0
  ELSE 2 * (MaxRetries - io.load.attempt) - (IF io.load.phase = "backoff" THEN 1 ELSE 0)

\* C39: every loadData() call ends (each step of a call in progress, the
\* settling of its request or the end of its delay, leaves fewer steps to
\* take), and the step that ends it leaves loading false; a call that failed
\* (a rejected request, a response that is not ok, a body that cannot be
\* parsed) leaves error non-null and in data.value the object held before the
\* call; a call that succeeded leaves error null and in data.value the loaded
\* object: the parsed response with an endpoint, else initialData, else the
\* sample document
C39_LoadCompletes ==
  [][/\ (io.load.phase # "idle" /\ io'.load # io.load)
          => LoadStepsLeft' < LoadStepsLeft
     /\ (/\ io'.load.phase = "idle"
         /\ (io.load.phase # "idle" \/ io'.loads # io.loads))
          => /\ ~io'.loading
             /\ io'.finished \in {"ok", "failed"}
             /\ io'.finished = "failed"
                  => /\ io'.error # NoError
                     /\ io'.payload = io'.before
                     /\ data' = data
             /\ io'.finished = "ok"
                  => /\ io'.error = NoError
                     /\ data' # 0
                     /\ io'.payload = LoadedPayload']_vars

\* a second loadData(), on a loaded dataset, has failed after three requests
C39_Witness ==
  /\ io.loads = MaxLoads
  /\ io.finished = "failed"
  /\ Len(io.attempts) = MaxRetries
  /\ io.before # NoPayload
  /\ io.payload = io.before
  /\ io.error # NoError
  /\ ~io.loading


\* --------------------------------------------------- projected rows, filtered
\* C34: after an evaluation of tabulatorData that is up to date with its
\* dependencies, every entry of the array is the row object of a row of
\* filteredRows and no two entries have the same rowIndex, also when
\* changedRowIndices held rows that the row filter hides
C34_ProjectionShowsFilteredRows ==
  (/\ data # 0
   /\ proj.mounted
   /\ ~proj.dirty
   /\ proj.path \notin {"none", "nodata"})
  => /\ \A i \in DOMAIN proj.value.rows :
          \E k \in DOMAIN FilteredRows(Store) :
            FilteredRows(Store)[k] = proj.value.rows[i].rowIndex
     /\ \A i, j \in DOMAIN proj.value.rows :
          i # j => proj.value.rows[i].rowIndex # proj.value.rows[j].rowIndex


\* -------------------------------------------------- rows offered for a request
\* Results are entered in cells of both result columns and marked final
\* through the store, the filters change, and the context menu of a displayed
\* cell is built.

\* context menus built in one behaviour
MaxMenus == 1

\* the result cells marked final; column 10 is the result column of a
\* non-reportable analyte, which the default filter hides
RequestCells == {<<1, 6>>, <<1, 10>>}

\* the result columns of the dataset
ResultColumns ==
  {ColumnDefinitions[i].columnIndex :
     i \in {j \in DOMAIN ColumnDefinitions : ColumnDefinitions[j].columnType = "result"}}

\* cell?.isFinal === true of cellMap.get(rowIndex)?.get(columnIndex)
CellIsFinal(S, r, c) ==
  /\ c \in MapCols
  /\ S.cellMapCache[r].has
  /\ S.cellMapCache[r].m[c] # 0
  /\ S.rows[r][S.cellMapCache[r].m[c]].isFinal

\* hasAnyFinalResult from the filtered result columns on: store.cellMap is
\* read when there is a column to test
SomeFinalResult(S2, r, columns) ==
  IF columns = <<>> THEN [st |-> S2, val |-> FALSE]
  ELSE [st |-> CellMapEval(S2),
        val |-> \E k \in DOMAIN columns : CellIsFinal(CellMapEval(S2), r, columns[k])]

\* hasAnyFinalResult after the row was found in store.rowMap
FinalResultOfRow(S2, r) ==
  SomeFinalResult(S2, r,
    SelectSeq(S2.filter.value.cols,
              LAMBDA c : ~IsStatic(c) /\ ColumnDef(c).columnType = "result"))

\* variant: hasAnyFinalResult that tests every result column of the dataset
HasAnyFinalResultAllColumns(S, r) ==
  IF S.data = 0 THEN [st |-> S, val |-> FALSE]
  ELSE IF r \notin RowIndices THEN [st |-> RowMapEval(S), val |-> FALSE]
  ELSE LET S3 == CellMapEval(RowMapEval(S))
       IN [st |-> S3, val |-> \E c \in ResultColumns : CellIsFinal(S3, r, c)]

\* hasAnyFinalResult(rowIndex): [st |-> the store after the reads, val |-> the result]
HasAnyFinalResult(S, r) ==
  IF S.data = 0 THEN [st |-> S, val |-> FALSE]
  ELSE IF r \notin RowIndices THEN [st |-> RowMapEval(S), val |-> FALSE]
  ELSE FinalResultOfRow(IF S.filter.dirty THEN FilteredColumns(RowMapEval(S))
                        ELSE RowMapEval(S), r)

\* the forEach of extractSelectedResultRows: H is what hasAnyFinalResult
\* returned for the first row of todo
RECURSIVE SelectResultRows(_, _, _)
SelectResultRow(H, todo, result) ==
  SelectResultRows(H.st, Tail(todo),
                   IF H.val THEN result ELSE Append(result, Head(todo)))

SelectResultRows(S, todo, result) ==
  IF todo = <<>> THEN [st |-> S, val |-> result]
  ELSE SelectResultRow(HasAnyFinalResult(S, Head(todo)), todo, result)

\* extractSelectedResultRows(selectedRanges, clickedColumn): the rows of the
\* range, when its column is a result column, without those that
\* hasAnyFinalResult excludes
ExtractSelectedResultRows(S, hasInstance, selRows, c) ==
  IF ~ValidateTabulatorOperation(hasInstance, S) THEN [st |-> S, val |-> <<>>]
  ELSE SelectResultRows(S, IF ExtractCellsFromRanges(selRows, c, TRUE) = <<>>
                           THEN <<>> ELSE selRows, <<>>)

\* the clicked row, when no selected row is left; H is what hasAnyFinalResult
\* returned for it
ClickedRowFallback(H, rowIndex) ==
  [st |-> H.st, val |-> IF H.val THEN <<>> ELSE <<rowIndex>>]

\* selectedResultRows of getCellContextMenu; E is what
\* extractSelectedResultRows returned
SelectedResultRows(E, rowIndex) ==
  IF E.val # <<>> THEN E
  ELSE ClickedRowFallback(HasAnyFinalResult(E.st, rowIndex), rowIndex)

\* getCellContextMenu on the cell (rowIndex, c) of a filtered column
GetCellContextMenu(S, rowIndex, c, selRows) ==
  IF ColumnType(c) # "result" THEN [st |-> S, val |-> <<>>]
  ELSE SelectedResultRows(
         ExtractSelectedResultRows(IsCellFinal(S, rowIndex, c).st,
                                   S.proj.mounted, selRows, c),
         rowIndex)

\* M is what getCellContextMenu computed
MenuBuilt(M) ==
  /\ Commit(M.st)
  /\ grid' = [grid EXCEPT !.offered = M.val, !.menus = @ + 1]
  /\ UNCHANGED <<historyVars, fmt>>

\* the rows the grid displays
DisplayedRows == {proj.value.rows[i].rowIndex : i \in DOMAIN proj.value.rows}

\* the context menu of a displayed cell of a filtered dynamic column, with no
\* range selected or with a range of displayed rows in the clicked column
getCellContextMenu ==
  \E rowIndex \in DisplayedRows, k \in DOMAIN filter.value.cols,
     selRows \in {<<>>} \cup SelectedRows :
    /\ data # 0
    /\ proj.mounted
    /\ grid.menus < MaxMenus
    /\ ~IsStatic(filter.value.cols[k])
    /\ \A i \in DOMAIN selRows : selRows[i] \in DisplayedRows
    /\ MenuBuilt(GetCellContextMenu(Store, rowIndex, filter.value.cols[k], selRows))

\* a result is entered in one of the cells
requestSetCellValue ==
  \E rc \in RequestCells :
    Mutation("setCellValue", rc[1], rc[2], Num(1),
             SetCellValue(Store, rc[1], rc[2], Num(1), 0))

requestMarkFinal ==
  \E rc \in RequestCells :
    Mutation("markResultCellFinal", rc[1], rc[2], Undef,
             MarkResultCellFinal(Store, rc[1], rc[2]))

requestSetReportableOnly ==
  /\ filter.filterChangeCounter < MaxProjectionFilterChanges
  /\ debouncedSetReportableOnly

NextRequest ==
  \/ loadData
  \/ mountGrid
  \/ updateCompleted
  \/ requestSetCellValue
  \/ requestMarkFinal
  \/ requestSetReportableOnly
  \/ projectionSetServiceItem
  \/ projectionSetViewMode
  \/ getCellContextMenu

SpecRequest == Init /\ [][NextRequest]_vars

\* a row with a result cell that is final, in some result column of the dataset
RowHasFinalResult(r) ==
  \E i \in DOMAIN rows[r] :
    /\ rows[r][i].columnIndex \in ResultColumns
    /\ rows[r][i].isFinal

\* C35: when a context menu is built, no row its request items hold (the rows
\* extractSelectedResultRows returned, or the clicked row) has a result cell
\* with isFinal = true in a result column of the dataset, whatever the filters
C35_OfferedRowsNotFinal ==
  [][grid'.menus # grid.menus
       => \A k \in DOMAIN grid'.offered : ~RowHasFinalResult(grid'.offered[k])]_vars


\* ------------------------------------------------------------ loading overlay
\* show() and hide() of the loading store are called in any order (by
\* withLoadingOverlay and by the request dialog, whose operations overlap),
\* time passes between the calls and the timeouts fire when they are due.

\* show() and hide() calls made in one behaviour
MaxOverlayCalls == 5

\* the time between two readings of the clock
ClockStep == MinDisplayTime \div 3

\* the handle setTimeout returns: one that no running timeout has
TimerHandle(O) ==
  CHOOSE h \in 1 .. (Cardinality(O.timers) + 1) :
    \A t \in O.timers : t.handle # h

\* show(msg)
Show(O, msg) ==
  [O EXCEPT !.timers = IF O.hideTimeout # 0
                       THEN {t \in @ : t.handle # O.hideTimeout} ELSE @,
            !.hideTimeout = 0,
            !.message = msg,
            !.isVisible = TRUE,
            !.progress = <<0, 0>>,
            !.elapsed = 0,
            !.wanted = TRUE, !.calls = @ + 1]

\* variant: hide() that clears the timeout it holds before it sets another
HideClearsTimeout(O) ==
  IF O.elapsed < MinDisplayTime
  THEN [O EXCEPT !.hideTimeout = TimerHandle([O EXCEPT !.timers = {}]),
                 !.timers = {[handle |-> TimerHandle([O EXCEPT !.timers = {}]),
                              left |-> MinDisplayTime - O.elapsed]},
                 !.wanted = FALSE, !.calls = @ + 1]
  ELSE [O EXCEPT !.isVisible = FALSE, !.message = "", !.progress = <<0, 0>>,
                 !.wanted = FALSE, !.calls = @ + 1]

\* hide()
Hide(O) ==
  IF O.elapsed < MinDisplayTime
  THEN [O EXCEPT !.hideTimeout = TimerHandle(O),
                 !.timers = @ \cup {[handle |-> TimerHandle(O),
                                     left |-> MinDisplayTime - O.elapsed]},
                 !.wanted = FALSE, !.calls = @ + 1]
  ELSE [O EXCEPT !.isVisible = FALSE, !.message = "", !.progress = <<0, 0>>,
                 !.wanted = FALSE, !.calls = @ + 1]

\* the callback of the timeout hide() set
HideTimeoutFires(O, t) ==
  [O EXCEPT !.isVisible = FALSE, !.message = "", !.progress = <<0, 0>>,
            !.hideTimeout = 0,
            !.timers = @ \ {t}]

\* ClockStep ms pass
ClockAdvances(O) ==
  [O EXCEPT !.elapsed = IF @ + ClockStep > MinDisplayTime THEN MinDisplayTime
                        ELSE @ + ClockStep,
            !.timers = {[t EXCEPT !.left = @ - ClockStep] : t \in @}]

OverlayStep(O) ==
  /\ grid' = [grid EXCEPT !.overlay = O]
  /\ UNCHANGED <<storeVars, historyVars, fmt>>

show ==
  /\ grid.overlay.calls < MaxOverlayCalls
  /\ OverlayStep(Show(grid.overlay, "Loading..."))

hide ==
  /\ grid.overlay.calls < MaxOverlayCalls
  /\ OverlayStep(Hide(grid.overlay))

\* a timeout that is due fires
hideTimeoutFires ==
  \E t \in grid.overlay.timers :
    /\ t.left = 0
    /\ OverlayStep(HideTimeoutFires(grid.overlay, t))

\* time passes when no timeout is due
clockAdvances ==
  /\ \A t \in grid.overlay.timers : t.left > 0
  /\ grid.overlay.elapsed < MinDisplayTime \/ grid.overlay.timers # {}
  /\ OverlayStep(ClockAdvances(grid.overlay))

NextOverlay ==
  \/ show
  \/ hide
  \/ hideTimeoutFires
  \/ clockAdvances

SpecOverlay == Init /\ [][NextOverlay]_vars

\* C36: after show() the overlay is visible until hide() is called again: no
\* timeout of a hide() that was called before the show(), two hide() calls in
\* a row included, turns it off
C36_OverlayStaysUp == grid.overlay.wanted => grid.overlay.isVisible


\* ---------------------------------------------------------- silent batch calls
\* the call that leads to S notifies no reader of the payload
IssuesNoSignal(S) ==
  /\ S.signals = 0
  /\ S.rowMapDirty = rowMapDirty
  /\ S.cellMapDirty = cellMapDirty
  /\ S.filter.dirty = filter.dirty
  /\ S.proj.dirty = proj.dirty

\* C37: in every state, endBatch() called while the store is Idle leaves
\* changedRowIndices and the pending set as they are and issues no signal;
\* startBatch() issues no signal and leaves changedRowIndices as it is;
\* clearChangedRows() called while Batching leaves the pending set as it is
C37_SilentBatchCalls ==
  /\ ~isBatching =>
       /\ EndBatch(Store).changedRowIndices = changedRowIndices
       /\ EndBatch(Store).batchChangedRows = batchChangedRows
       /\ IssuesNoSignal(EndBatch(Store))
  /\ (last.op = "endBatch" /\ ~last.batching) => last.sig = 0
  /\ StartBatch(Store).changedRowIndices = changedRowIndices
  /\ IssuesNoSignal(StartBatch(Store))
  /\ isBatching => ClearChangedRows(Store).batchChangedRows = batchChangedRows

\* endBatch() was called while Idle, on a loaded dataset with rows in
\* changedRowIndices, and left them there
C37_Witness ==
  /\ last.op = "endBatch" /\ ~last.batching
  /\ ~isBatching
  /\ data # 0
  /\ changedRowIndices # {}


\* ------------------------------------------------------------ processInChunks
\* One call of processInChunks on a list of 0 .. MaxItems items, with a chunk
\* size of 1 .. MaxChunkSize, with or without onProgress; the processor is
\* asynchronous and settles.

\* the longest list and the largest chunk
MaxItems == 4
MaxChunkSize == 3
\* progressUpdateInterval: every item, every second, the default
ProgressIntervals == {1, 2, 10}

\* chunk.length of items.slice(i, Math.min(i + chunkSize, total))
ChunkLength(c) ==
  (IF c.i + c.chunkSize < c.total THEN c.i + c.chunkSize ELSE c.total) - c.i

\* variant: a yield after every chunk
YieldsAfterEveryChunk(c) == TRUE

\* if (i + chunkSize < total)
YieldsAfterChunk(c) == c.i + c.chunkSize < c.total

\* the test of the outer loop, for (...; i < total; ...), at a chunk start
ChunkStart(c) ==
  IF c.i < c.total THEN [c EXCEPT !.pc = "loop", !.chunkIndex = 0]
  ELSE [c EXCEPT !.pc = "done"]

\* the test of the inner loop: the next invocation of the processor, or the
\* end of the chunk
ChunkLoop(c) ==
  IF c.chunkIndex < ChunkLength(c)
  THEN [c EXCEPT !.pc = "processor", !.invoked = Append(@, c.i + c.chunkIndex)]
  ELSE IF YieldsAfterChunk(c)
  THEN [c EXCEPT !.pc = "yield",
                 !.yields = Append(@, Len(c.invoked))]
  ELSE ChunkStart([c EXCEPT !.i = @ + c.chunkSize])

\* await processor(item, index) resumes: the progress report, chunkIndex++
ProcessorSettled(c) ==
  LET index == c.i + c.chunkIndex
  IN [c EXCEPT !.pc = "loop",
               !.reports = IF /\ c.onProgress
                              /\ (\/ index % c.progressUpdateInterval = 0
                                  \/ index = c.total - 1)
                           THEN Append(@, <<index + 1, c.total>>) ELSE @,
               !.chunkIndex = @ + 1]

ChunksStep(c) ==
  /\ grid' = [grid EXCEPT !.chunks = c]
  /\ UNCHANGED <<storeVars, historyVars, fmt>>

\* processInChunks(items, processor, options) up to its first await
chunksCall ==
  \E total \in 0 .. MaxItems, chunkSize \in 1 .. MaxChunkSize,
     interval \in ProgressIntervals, onProgress \in BOOLEAN :
    /\ grid.chunks.pc = "idle"
    /\ ChunksStep(ChunkStart([NoChunks EXCEPT !.total = total,
                                             !.chunkSize = chunkSize,
                                             !.progressUpdateInterval = interval,
                                             !.onProgress = onProgress]))

\* the loop runs to its next await or to its end
chunksLoop ==
  /\ grid.chunks.pc = "loop"
  /\ ChunksStep(ChunkLoop(grid.chunks))

\* the promise of the processor settles
chunksProcessorSettles ==
  /\ grid.chunks.pc = "processor"
  /\ ChunksStep(ProcessorSettled(grid.chunks))

\* the timeout of the yield fires: i += chunkSize, the next chunk
chunksYieldEnds ==
  /\ grid.chunks.pc = "yield"
  /\ ChunksStep(ChunkStart([grid.chunks EXCEPT !.i = @ + grid.chunks.chunkSize]))

NextChunks ==
  \/ chunksCall
  \/ chunksLoop
  \/ chunksProcessorSettles
  \/ chunksYieldEnds

SpecChunks == Init /\ [][NextChunks]_vars

\* a bound on the steps a call can still take: four for each item that was
\* not handed to the processor, and those of the item or chunk at hand
ChunkStepsLeft(c) ==
  IF c.pc \in {"idle", "done"} THEN 0
  ELSE 4 * (c.total - Len(c.invoked))
       + (IF c.pc = "processor" THEN 4
          ELSE IF c.pc = "yield" THEN 2
          ELSE IF c.chunkIndex >= ChunkLength(c) THEN 3 ELSE 1)

\* C38: a call of processInChunks ends (every step of it leaves fewer steps
\* to take); it hands the items to the processor in ascending index order,
\* each once when it has returned and one at a time; it yields only after a
\* whole chunk that is not the last one; with onProgress and a non-empty list
\* its last report, when it has returned, is (total, total)
C38_ChunksProcessedOnce ==
  [][LET c == grid.chunks
         d == grid'.chunks
     IN /\ c.pc \notin {"idle", "done"} => ChunkStepsLeft(d) < ChunkStepsLeft(c)
        /\ \A k \in DOMAIN d.invoked : d.invoked[k] = k - 1
        /\ Len(d.invoked) <= d.total
        /\ Len(d.invoked) > Len(c.invoked) => c.pc # "processor"
        /\ \A k \in DOMAIN d.yields :
             /\ d.yields[k] % d.chunkSize = 0
             /\ d.yields[k] > 0
             /\ d.yields[k] < d.total
        /\ d.pc = "yield" => Len(d.invoked) < d.total
        /\ d.pc = "done" =>
             /\ Len(d.invoked) = d.total
             /\ (d.onProgress /\ d.total > 0) =>
                  /\ d.reports # <<>>
                  /\ d.reports[Len(d.reports)] = <<d.total, d.total>>
             /\ ~d.onProgress => d.reports = <<>>]_vars

\* a call with onProgress on four items in chunks of two has returned: it
\* yielded once, after the second item
C38_Witness ==
  /\ grid.chunks.pc = "done"
  /\ grid.chunks.total = MaxItems
  /\ grid.chunks.chunkSize = 2
  /\ grid.chunks.onProgress
  /\ grid.chunks.yields = <<2>>
  /\ Len(grid.chunks.invoked) = MaxItems
  /\ grid.chunks.reports[Len(grid.chunks.reports)] = <<MaxItems, MaxItems>>

====
